---- MODULE Spec2Model ----
(***************************************************************************)
(* Huella de Carbono: change-processing pipeline (HCOrchestrator,          *)
(* AuditAgent, ValidationAgent, CalcAgent), the JSON and PostgreSQL stores *)
(* behind it and the free-tier storage guard.                              *)
(*                                                                         *)
(* Units.  Per-record emissions are kept in grams (kg x 1000, the three    *)
(* decimals the engine rounds to); every figure of a Resultados object is  *)
(* kept in kilograms (tonnes x 1000, the three decimals it is rounded to). *)
(***************************************************************************)
EXTENDS Integers, Sequences, FiniteSets, TLC

\* ------------------------------------------------------------------ bounds
MaxLog == 2          \* audit_log.csv rows the model lets accumulate
MaxItems == 2        \* items per activity list
MaxNow == 60001      \* the clock value time is let run to
MaxFilas == 3        \* rows of the audit logs getRecent is tried on

\* --------------------------------------------------------------- constants
THRESHOLD_PERCENT == 10
ANIO_MIN == 2007
ANIO_MAX == 2027
CANTIDAD_MAX == 10000000
\* global warming potentials (AR6): PCA_CH4 is 27.9, held in tenths
PCA_CH4 == 279
PCA_N2O == 273
HARD_LIMIT_BYTES == 419430400     \* 400 * 1024 * 1024
WARN_LIMIT_BYTES == 314572800     \* 300 * 1024 * 1024
MAX_ROWS == 10000
CACHE_TTL_MS == 60000

\* null / a missing file / a missing row; every optional value is a record
NULL == [kind |-> "null"]

Orgs == {"org_001", "org_002"}
Anios == {2024, 2025}
EventAnios == {2006, 2025}
\* the organization the modelled callers change data of
EventOrgs == {"org_001"}
Procs == {1, 2}

\* ------------------------------------------------------------ CSV cells
\* A cell of audit_log.csv is text.  k says what the text looks like to
\* Papa.parse's dynamicTyping: a numeral, an ISO date, the empty text, or
\* any other text.  canon: the ISO date is in Date.toISOString() form.
Cell(k, n, s, canon) == [k |-> k, n |-> n, s |-> s, canon |-> canon]
TxtCell(s) == IF s = "" THEN Cell("empty", 0, "", TRUE) ELSE Cell("txt", 0, s, TRUE)
NumCell(n) == Cell("num", n, "", TRUE)
DateCell(t, canon) == Cell("date", t, "", canon)

\* JS values.  t is typeof (with "Date" and "null" told apart); a number is n,
\* a string is the cell its text makes (c), a Date is its instant n.
JsNum(n) == [t |-> "number", n |-> n, c |-> NumCell(n)]
JsStr(s) == [t |-> "string", n |-> 0, c |-> TxtCell(s)]
JsText(c) == [t |-> "string", n |-> 0, c |-> c]
JsDate(n) == [t |-> "Date", n |-> n, c |-> DateCell(n, TRUE)]
JsNull == [t |-> "null", n |-> 0, c |-> TxtCell("")]
JsUndef == [t |-> "undefined", n |-> 0, c |-> TxtCell("")]

\* String(v): the text of a value, as a JS string
StringOf(v) == JsText(v.c)

\* Papa.parse with dynamicTyping: a numeral becomes a number, an ISO date a
\* Date, the empty text null, any other text stays a string.
ParseCell(c) ==
  IF c.k = "num" THEN JsNum(c.n)
  ELSE IF c.k = "date" THEN JsDate(c.n)
  ELSE IF c.k = "empty" THEN JsNull
  ELSE JsText(c)

\* Papa.unparse: a Date is written in its toISOString() form, null as the
\* empty text, a number as its numeral, a string as its text.
UnparseValue(v) ==
  IF v.t = "Date" THEN DateCell(v.n, TRUE)
  ELSE IF v.t = "null" \/ v.t = "undefined" THEN TxtCell("")
  ELSE v.c

readCSV(file) == [i \in 1..Len(file) |-> [f \in DOMAIN file[i] |-> ParseCell(file[i][f])]]
writeCSV(rows) == [i \in 1..Len(rows) |-> [f \in DOMAIN rows[i] |-> UnparseValue(rows[i][f])]]

\* appendRow that writes back what it read and forgets the new row
appendRowWriteSinFila(existingData, row) == writeCSV(existingData)

\* appendRow, second half: push the row onto the data read and write it all
appendRowWrite(existingData, row) == writeCSV(Append(existingData, row))

\* AuditAgent.log: the row built from an entry (ids are fresh; the model
\* numbers them by the call that made them)
OrEmpty(v) == IF v.t = "undefined" \/ (v.t = "string" /\ v.c.k = "empty") THEN JsStr("") ELSE v
StrOrEmpty(v) == IF v.t = "undefined" THEN JsStr("") ELSE StringOf(v)
auditRow(entry, uuid) ==
  [ id |-> JsStr("aud_" \o ToString(uuid)),
    user_id |-> JsStr(entry.userId),
    org_id |-> JsStr(entry.orgId),
    accion |-> JsStr(entry.accion),
    entidad_tipo |-> JsStr(entry.entidad),
    entidad_id |-> OrEmpty(entry.entidadId),
    campo_modificado |-> OrEmpty(entry.campoModificado),
    valor_anterior |-> StrOrEmpty(entry.valorAnterior),
    valor_nuevo |-> StrOrEmpty(entry.valorNuevo),
    timestamp |-> JsText(entry.timestamp),
    ip_address |-> JsStr(""),
    session_id |-> JsStr("") ]

\* ------------------------------------------------------- calculation engine
\* what a number that is missing evaluates to: undefined when read from an
\* item without the field, NaN as soon as it is added to or rounded, null once
\* JSON.stringify has written it.  Every emission of the model is
\* non-negative, which leaves this value free to stand for all three.
NaN == -1

\* a + b
Mas(a, b) == IF a = NaN \/ b = NaN THEN NaN ELSE a + b

RECURSIVE SumCampo(_, _)
\* items.reduce((sum, x) => sum + x[campo], 0)
SumCampo(items, campo) ==
  IF items = <<>> THEN 0 ELSE Mas(items[1][campo], SumCampo(Tail(items), campo))

\* Math.round(x * 1000) / 1000 of x = g / 10^6 tonnes: g grams to whole kg,
\* half up
Redondear3(g) == IF g = NaN THEN NaN ELSE (g + 500) \div 1000
\* Math.round((num / den) * scale) / scale, num and den non-negative integers
RedondearDiv(num, den) == IF num = NaN THEN NaN ELSE (2 * num + den) \div (2 * den)

\* calcularEmisionesCombustible works in IEEE-754 doubles.  cantidad is in
\* tenths of a unit, the factors in thousandths (co2_kg_ud of a kg, ch4_g_ud
\* and n2o_g_ud of a gram), the results in thousandths (co2_kg and
\* total_kg_co2e in grams).  For the inputs below the exact value of the
\* figure lies midway between two thousandths and the double computed for it
\* lies under the midpoint, so Math.round(x * 1000) / 1000 gives the lower
\* thousandth (2.5 x 2.001 = 5.0025 comes out as 5.002); on every other input
\* with cantidad in {0, 0.5, 1, 1.5, 2.5}, co2_kg_ud in {0, 0.4, 2.001, 2.868},
\* ch4_g_ud in {0, 0.04, 10} and n2o_g_ud in {0, 0.01, 5} the computed
\* rounding agrees with the exact one.
IEEEBajoMitadCO2 == {<<25, 2001>>}
IEEEBajoMitadTotal ==
  { <<5, 0, 10000, 0>>, <<5, 2001, 10000, 5000>>, <<15, 0, 0, 5000>>,
    <<15, 2001, 10000, 5000>>, <<15, 2868, 0, 5000>>, <<15, 2868, 10000, 0>>,
    <<25, 2001, 0, 0>>, <<25, 2001, 10000, 5000>> }

\* the exact figure num / den (den even) rounded half up, one less where the
\* double is under the midpoint
RedondearIEEE(num, den, bajo) == ((num + den \div 2) \div den) - (IF bajo THEN 1 ELSE 0)

\* a total that charges one unit of fuel whatever the quantity burnt
TotalCombustibleConMinimo(cantidad, fe) ==
  (cantidad + 10) * (fe.co2_kg_ud * 10000 + fe.ch4_g_ud * PCA_CH4 + fe.n2o_g_ud * PCA_N2O * 10)

\* total_kg_co2e = co2_kg + (ch4_g / 1000) * PCA_CH4 + (n2o_g / 1000) * PCA_N2O
\* in units of 10^-5 g
TotalCombustible(cantidad, fe) ==
  cantidad * (fe.co2_kg_ud * 10000 + fe.ch4_g_ud * PCA_CH4 + fe.n2o_g_ud * PCA_N2O * 10)

calcularEmisionesCombustible(cantidad, fe) ==
  [ co2_kg |-> RedondearIEEE(cantidad * fe.co2_kg_ud, 10,
                             <<cantidad, fe.co2_kg_ud>> \in IEEEBajoMitadCO2),
    ch4_g |-> RedondearIEEE(cantidad * fe.ch4_g_ud, 10, FALSE),
    n2o_g |-> RedondearIEEE(cantidad * fe.n2o_g_ud, 10, FALSE),
    total_kg_co2e |-> RedondearIEEE(TotalCombustible(cantidad, fe), 100000,
                        <<cantidad, fe.co2_kg_ud, fe.ch4_g_ud, fe.n2o_g_ud>>
                          \in IEEEBajoMitadTotal) ]

\* a fugitive emission that comes back in tonnes
calcularEmisionesFugitivasEnToneladas(recarga_kg, pca_gas) == recarga_kg * pca_gas

calcularEmisionesFugitivas(recarga_kg, pca_gas) == recarga_kg * pca_gas * 1000

\* an electricity emission that takes no notice of the guarantee of origin
calcularEmisionesElectricidadSinGdO(kwh_consumidos, factor_milli, tiene_gdo) ==
  kwh_consumidos * factor_milli

\* factor in thousandths of a kg CO2 per kWh
calcularEmisionesElectricidad(kwh_consumidos, factor_milli, tiene_gdo) ==
  IF tiene_gdo THEN 0 ELSE kwh_consumidos * factor_milli

calcularAlcance1InstalacionesFijas(data) ==
  IF data = NULL THEN [no_ley |-> 0, ley |-> 0]
  ELSE [no_ley |-> SumCampo(data.no_sujetas_ley_1_2005, "emisiones_totales_kg_co2e"), ley |-> SumCampo(data.sujetas_ley_1_2005, "emisiones_totales_kg_co2e")]

calcularAlcance1Vehiculos(data) ==
  IF data = NULL THEN [carretera |-> 0, no_carretera |-> 0, maquinaria |-> 0]
  ELSE [carretera |-> Mas(SumCampo(data.transporte_carretera_A1_combustible, "emisiones_totales_kg_co2e"),
                           SumCampo(data.transporte_carretera_A2_distancia_km, "emisiones_totales_kg_co2e")),
        no_carretera |-> SumCampo(data.transporte_ferroviario_maritimo_aereo, "emisiones_totales_kg_co2e"),
        maquinaria |-> SumCampo(data.maquinaria_movil, "emisiones_totales_kg_co2e")]

\* a fugitive subtotal already divided by 1000 before recalculate divides it
calcularAlcance1FugitivasEnToneladas(data) ==
  IF data = NULL THEN 0
  ELSE Mas(SumCampo(data.climatizacion_refrigeracion, "emisiones_kg_co2e"),
           SumCampo(data.otros, "emisiones_kg_co2e")) \div 1000

calcularAlcance1Fugitivas(data) ==
  IF data = NULL THEN 0 ELSE Mas(SumCampo(data.climatizacion_refrigeracion, "emisiones_kg_co2e"), SumCampo(data.otros, "emisiones_kg_co2e"))

calcularAlcance1Proceso(data) == IF data = NULL THEN 0 ELSE SumCampo(data.emisiones, "emisiones_kg_co2e")

calcularAlcance2(data) ==
  IF data = NULL THEN [edificios |-> 0, vehiculos |-> 0, calor |-> 0]
  ELSE [edificios |-> SumCampo(data.electricidad_edificios, "emisiones_kg_co2"),
        vehiculos |-> SumCampo(data.electricidad_vehiculos, "emisiones_kg_co2"),
        calor |-> SumCampo(data.calor_vapor_frio, "emisiones_kg_co2")]

\* x || 1 on an optional number of the organization profile
OrOne(org, campo) == IF org = NULL \/ org[campo] = 0 THEN 1 ELSE org[campo]

\* CalcAgent.recalculate, up to the save: the Resultados computed from the data
\* of one organization and year (d: the seven files, each NULL when absent)
Resultados(anio, d) ==
  LET fijas == calcularAlcance1InstalacionesFijas(d.scope1_instalaciones_fijas)
      vehiculos == calcularAlcance1Vehiculos(d.scope1_vehiculos)
      fugitivas == calcularAlcance1Fugitivas(d.scope1_fugitivas)
      proceso == calcularAlcance1Proceso(d.scope1_proceso)
      total_alcance1 == Mas(Mas(Mas(Mas(Mas(Mas(fijas.no_ley, fijas.ley), vehiculos.carretera),
                                        vehiculos.no_carretera), vehiculos.maquinaria),
                                fugitivas), proceso)
      alcance2 == calcularAlcance2(d.scope2_electricidad)
      total_alcance2 == Mas(Mas(alcance2.edificios, alcance2.vehiculos), alcance2.calor)
      total == Mas(total_alcance1, total_alcance2)
  IN [ anio_calculo |-> anio,
       alcance_1 |-> [ instalaciones_fijas_no_ley |-> Redondear3(fijas.no_ley),
                       instalaciones_fijas_ley |-> Redondear3(fijas.ley),
                       transporte_carretera |-> Redondear3(vehiculos.carretera),
                       transporte_ferroviario_maritimo_aereo |-> Redondear3(vehiculos.no_carretera),
                       maquinaria |-> Redondear3(vehiculos.maquinaria),
                       fugitivas |-> Redondear3(fugitivas),
                       proceso |-> Redondear3(proceso),
                       total_t_co2e |-> Redondear3(total_alcance1) ],
       alcance_2 |-> [ electricidad_edificios |-> Redondear3(alcance2.edificios),
                       electricidad_vehiculos |-> Redondear3(alcance2.vehiculos),
                       calor_vapor_frio |-> Redondear3(alcance2.calor),
                       total_t_co2e |-> Redondear3(total_alcance2) ],
       total_alcance_1_2_t_co2e |-> Redondear3(total),
       ratios |-> [ t_co2e_por_empleado |->
                      RedondearDiv(total, 1000 * OrOne(d.organization, "num_empleados")),
                    t_co2e_por_m2 |->
                      RedondearDiv(total, 100 * OrOne(d.organization, "superficie_m2")),
                    t_co2e_por_indice_actividad |->
                      RedondearDiv(total, OrOne(d.organization, "indice_actividad")) ] ]

\* ---------------------------------------------------------------- stores
\* initializeOrgYear's empty files
emptyScope1Fijas == [no_sujetas_ley_1_2005 |-> <<>>, sujetas_ley_1_2005 |-> <<>>]
emptyScope1Vehiculos ==
  [ transporte_carretera_A1_combustible |-> <<>>,
    transporte_carretera_A2_distancia_km |-> <<>>,
    transporte_ferroviario_maritimo_aereo |-> <<>>,
    maquinaria_movil |-> <<>> ]
emptyScope1Fugitivas == [climatizacion_refrigeracion |-> <<>>, otros |-> <<>>]
emptyScope2 == [electricidad_edificios |-> <<>>, electricidad_vehiculos |-> <<>>,
                calor_vapor_frio |-> <<>>]
emptyResults(anio) ==
  [ anio_calculo |-> anio,
    alcance_1 |-> [ instalaciones_fijas_no_ley |-> 0, instalaciones_fijas_ley |-> 0,
                    transporte_carretera |-> 0, transporte_ferroviario_maritimo_aereo |-> 0,
                    maquinaria |-> 0, fugitivas |-> 0, proceso |-> 0, total_t_co2e |-> 0 ],
    alcance_2 |-> [ electricidad_edificios |-> 0, electricidad_vehiculos |-> 0,
                    calor_vapor_frio |-> 0, total_t_co2e |-> 0 ],
    total_alcance_1_2_t_co2e |-> 0,
    ratios |-> [ t_co2e_por_empleado |-> 0, t_co2e_por_m2 |-> 0,
                 t_co2e_por_indice_actividad |-> 0 ] ]

Tipos == {"organization", "scope1_instalaciones_fijas", "scope1_vehiculos",
          "scope1_fugitivas", "scope1_proceso", "scope2_electricidad", "results"}

\* no file (json store) or no row (org_year_data) of an organization and year
SinDatos == [t \in Tipos |-> NULL]

\* json-store initializeOrgYear: writes the empty file where none exists
jsonInitializeOrgYear(d, anio) ==
  [d EXCEPT
     !.scope1_instalaciones_fijas = IF @ = NULL THEN emptyScope1Fijas ELSE @,
     !.scope1_vehiculos = IF @ = NULL THEN emptyScope1Vehiculos ELSE @,
     !.scope1_fugitivas = IF @ = NULL THEN emptyScope1Fugitivas ELSE @,
     !.scope2_electricidad = IF @ = NULL THEN emptyScope2 ELSE @,
     !.results = IF @ = NULL THEN emptyResults(anio) ELSE @]

\* loadResults / loadOrgData: null for a year with no row
Load(store, orgId, anio, tipo) ==
  IF orgId \in Orgs /\ anio \in Anios THEN store[orgId][anio][tipo] ELSE NULL

\* ------------------------------------------------------------ validation
\* pg-store keeps the static data in the table static_data; loadEmissionFactors
\* and loadDropdowns are async functions, so a call evaluates to a promise of
\* the data.
EmissionFactorsData == [kind |-> "EmissionFactors", anios_disponibles |-> 2007..2024]
DropdownsData ==
  [ kind |-> "Dropdowns",
    tipos_combustible_fijo |-> {"Gas natural", "Gasoleo C"},
    tipos_combustible_vehiculo |-> {"Gasolina", "Gasoleo A"} ]
PromiseOf(value) == [kind |-> "Promise", value |-> value]
loadEmissionFactors == PromiseOf(EmissionFactorsData)
loadDropdowns == PromiseOf(DropdownsData)

\* obj.name is undefined when the object has no such property: a promise has
\* none of the properties of the data it resolves to
PropUndefined(obj, name) == obj.kind = "Promise"

FieldIncludesCantidad(field) == field \in {"cantidad", "cantidad_anual"}

ValError(field, rule, severity) == [field |-> field, rule |-> rule, severity |-> severity]

\* ValidationAgent.validate with the values its two un-awaited loads give it.
\* threw: a TypeError leaves the function (a method called on undefined, a
\* spread of undefined); otherwise the ValidationResult.
validateWith(event, factors, dropdowns) ==
  LET fuera == event.anio < ANIO_MIN \/ event.anio > ANIO_MAX
      sinAnios == PropUndefined(factors, "anios_disponibles")
      threwAnio == ~fuera /\ factors # NULL /\ sinAnios
      eAnio == IF fuera THEN <<ValError("anio", "fuera_rango", "error")>>
               ELSE IF factors # NULL /\ ~sinAnios
                       /\ event.anio \notin factors.anios_disponibles
                    THEN <<ValError("anio", "sin_factores", "warning")>>
               ELSE <<>>
      esNumero == event.newValue.t = "number"
      eNeg == IF esNumero /\ event.newValue.n < 0
              THEN <<ValError(event.field, "negativo", "error")>> ELSE <<>>
      eAlto == IF esNumero /\ FieldIncludesCantidad(event.field)
                    /\ event.newValue.n > CANTIDAD_MAX
               THEN <<ValError(event.field, "inusual", "warning")>> ELSE <<>>
      esFuel == event.field = "tipo_combustible" /\ event.newValue.t = "string"
      threwFuel == esFuel /\ dropdowns # NULL
                     /\ (PropUndefined(dropdowns, "tipos_combustible_fijo")
                         \/ PropUndefined(dropdowns, "tipos_combustible_vehiculo"))
      eFuel == IF esFuel /\ dropdowns # NULL /\ ~threwFuel
                    /\ event.newValue.c.s \notin (dropdowns.tipos_combustible_fijo
                                                    \cup dropdowns.tipos_combustible_vehiculo)
               THEN <<ValError(event.field, "no_reconocido", "warning")>> ELSE <<>>
      errors == eAnio \o eNeg \o eAlto \o eFuel
  IN [ threw |-> threwAnio \/ threwFuel,
       isValid |-> \A i \in 1..Len(errors) : errors[i].severity # "error",
       errors |-> errors ]

validate(event) == validateWith(event, loadEmissionFactors, loadDropdowns)

\* ------------------------------------------------------------ thresholds
Abs(x) == IF x < 0 THEN -x ELSE x

\* ((currentTotal - previousTotal) / previousTotal) * 100 is evaluated in
\* IEEE-754 doubles on totals of three decimals.  Of the totals this model
\* reaches, these (previous, current) pairs in kg have a variation of exactly
\* 10 % whose computed magnitude comes out above 10 (1 t -> 1.1 t gives
\* 10.000000000000009); on every other pair the computed comparison agrees
\* with the exact one.
IEEESobreDiez == {<<1000, 1100>>}

\* Math.abs(variacion) > THRESHOLD_PERCENT as the code computes it
VariacionSuperaUmbral(previousTotal, currentTotal) ==
  /\ currentTotal # NaN      \* Math.abs(NaN) > 10 is false
  /\ \/ 100 * Abs(currentTotal - previousTotal) > THRESHOLD_PERCENT * previousTotal
     \/ <<previousTotal, currentTotal>> \in IEEESobreDiez

\* a threshold check that takes a year without results for a year of no
\* emissions and reports the increase
checkThresholdsSinPrevio(previousResults, currentResults, anio) ==
  IF previousResults = NULL
  THEN << [ tipo |-> "umbral", direccion |-> "AUMENTO", pct10 |-> 0,
            respecto_a |-> anio - 1, previousTotal |-> 0,
            currentTotal |-> currentResults.total_alcance_1_2_t_co2e ] >>
  ELSE <<>>

\* HCOrchestrator.checkThresholds after its load: the alerts for the results
\* of anio given the results loaded for anio - 1.  pct10: the percentage
\* shown, toFixed(1), in tenths.
checkThresholds(previousResults, currentResults, anio) ==
  IF previousResults # NULL /\ previousResults.total_alcance_1_2_t_co2e > 0
  THEN LET previousTotal == previousResults.total_alcance_1_2_t_co2e
           currentTotal == currentResults.total_alcance_1_2_t_co2e
       IN IF VariacionSuperaUmbral(previousTotal, currentTotal)
          THEN << [ tipo |-> "umbral",
                    direccion |-> IF currentTotal - previousTotal > 0
                                  THEN "AUMENTO" ELSE "REDUCCION",
                    pct10 |-> RedondearDiv(1000 * Abs(currentTotal - previousTotal),
                                           previousTotal),
                    respecto_a |-> anio - 1,
                    previousTotal |-> previousTotal,
                    currentTotal |-> currentTotal ] >>
          ELSE <<>>
  ELSE <<>>

\* the alert a validation warning is forwarded as
WarningAlert(e) == [tipo |-> "warning", field |-> e.field, rule |-> e.rule]

RECURSIVE SelectWarnings(_)
\* validation.errors.filter(e => e.severity === 'warning'), each pushed as an alert
SelectWarnings(errors) ==
  IF errors = <<>> THEN <<>>
  ELSE (IF errors[1].severity = "warning" THEN <<WarningAlert(errors[1])>> ELSE <<>>)
         \o SelectWarnings(Tail(errors))

\* ------------------------------------------------------- free-tier guard
\* a cache still served when exactly the window has passed
CacheFreshInclusive(c, t) == c # NULL /\ t - c.checkedAt <= CACHE_TTL_MS

\* getDatabaseSize serves the cached measurement while it is this fresh
CacheFresh(c, t) == c # NULL /\ t - c.checkedAt < CACHE_TTL_MS

\* checkWriteAllowed blocking only above the hard limit
checkWriteAllowedEstricto(size) ==
  LET base == [ allowed |-> TRUE, dbSizeBytes |-> size.bytes, rowCount |-> size.rows,
                limitMB |-> HARD_LIMIT_BYTES \div 1048576,
                warnMB |-> WARN_LIMIT_BYTES \div 1048576,
                warning |-> FALSE, error |-> "none" ]
  IN IF size.bytes > HARD_LIMIT_BYTES
     THEN [base EXCEPT !.allowed = FALSE, !.error = "size"]
     ELSE IF size.rows >= MAX_ROWS
     THEN [base EXCEPT !.allowed = FALSE, !.error = "rows"]
     ELSE IF size.bytes >= WARN_LIMIT_BYTES
     THEN [base EXCEPT !.warning = TRUE]
     ELSE base

\* checkWriteAllowed on the measurement getDatabaseSize returned.  error is
\* "none" when the result carries no error message, else which block it names.
checkWriteAllowed(size) ==
  LET base == [ allowed |-> TRUE, dbSizeBytes |-> size.bytes, rowCount |-> size.rows,
                limitMB |-> HARD_LIMIT_BYTES \div 1048576,
                warnMB |-> WARN_LIMIT_BYTES \div 1048576,
                warning |-> FALSE, error |-> "none" ]
  IN IF size.bytes >= HARD_LIMIT_BYTES
     THEN [base EXCEPT !.allowed = FALSE, !.error = "size"]
     ELSE IF size.rows >= MAX_ROWS
     THEN [base EXCEPT !.allowed = FALSE, !.error = "rows"]
     ELSE IF size.bytes >= WARN_LIMIT_BYTES
     THEN [base EXCEPT !.warning = TRUE]
     ELSE base

\* getUsageInfo on the measurement getDatabaseSize returned
getUsageInfo(size) ==
  [ rowCount |-> size.rows,
    isNearLimit |-> size.bytes >= WARN_LIMIT_BYTES,
    isBlocked |-> size.bytes >= HARD_LIMIT_BYTES \/ size.rows >= MAX_ROWS ]

\* a guardWrite that only logs
guardWriteNuncaLanza(result) == FALSE

\* guardWrite throws FreeTierBlockedError on this result
guardWriteThrows(result) == ~result.allowed

\* an invalidateCache that leaves _cache as it is
invalidateCacheOlvidado(c) == c

\* what invalidateCache leaves in _cache, c before it
invalidateCache(c) == NULL

\* the route's errorResponse
errorResponse(error) ==
  IF error = "FreeTierBlockedError"
  THEN [status |-> 507, code |-> "FREE_TIER_EXCEEDED"]
  ELSE [status |-> 500, code |-> ""]

\* ------------------------------------------------------------------ state
VARIABLES
  audit_log,   \* store/audit_log.csv: the rows of the file, each a record of cells
  jsonStore,   \* data/orgs/{org}/{anio}/*.json: [org][anio][tipo], NULL = no file
  pgStore,     \* org_year_data: [org][anio][tipo], NULL = no row
  calls,       \* the orchestrator call each request slot is running
  now,         \* the clock, Date.now()
  cache,       \* free-tier-guard's _cache: NULL or [bytes, rows, checkedAt]
  usage,       \* the database: its size, the rows of org_year_data other
               \* organizations hold, and whether it answers queries
  sedes,       \* table sedes: [org][anio], the rows in created_at order
  reqs         \* the /api/data request each request slot is serving

guardVars == <<cache, usage, sedes, reqs>>
vars == <<audit_log, jsonStore, pgStore, calls, now, cache, usage, sedes, reqs>>

NoEntry == [ userId |-> "", orgId |-> "", accion |-> "", entidad |-> "",
             entidadId |-> JsUndef, campoModificado |-> JsUndef,
             valorAnterior |-> JsUndef, valorNuevo |-> JsUndef,
             timestamp |-> DateCell(0, TRUE) ]
NoEvent == [ userId |-> "", orgId |-> "", anio |-> 0, entity |-> "", entityId |-> JsUndef,
             field |-> "", oldValue |-> JsUndef, newValue |-> JsUndef,
             affectedScope |-> "both", timestamp |-> DateCell(0, TRUE) ]

\* a request slot with no call; stages lists, in order, the agents' operations
\* the call has completed
IdleCall ==
  [ op |-> "none", pc |-> "idle", userId |-> "", orgId |-> "", anio |-> 0,
    event |-> NoEvent, entry |-> NoEntry, uuid |-> 0, existingData |-> <<>>,
    alerts |-> <<>>, validation |-> NULL, results |-> NULL,
    error |-> "none", errors |-> <<>>, stages |-> <<>>,
    scope |-> "both", args |-> NULL ]

Finished(c) == c.pc \in {"idle", "done", "failed"}
InFlight == {p \in Procs : ~Finished(calls[p])}

\* a new call may use slot p: the slot is free and the log has room for its row
CanStart(p) == Finished(calls[p]) /\ Len(audit_log) + Cardinality(InFlight) < MaxLog

\* a json file that exists but cannot be read or parsed
Ilegible == [kind |-> "ilegible"]

\* json-store readJSON: the catch logs the error and returns null
readJSON(contenido) == IF contenido = Ilegible THEN NULL ELSE contenido

\* the data of one organization and year as the json store's loaders see it
jsonData(orgId, anio) == [t \in Tipos |-> readJSON(Load(jsonStore, orgId, anio, t))]

\* ---------------------------------------------------------- entry points
\* HCOrchestrator.onDataChange, up to its first await (auditAgent.log)
BeginDataChange(p, event) ==
  calls' = [calls EXCEPT ![p] =
    [IdleCall EXCEPT
       !.op = "onDataChange", !.pc = "log_read",
       !.userId = event.userId, !.orgId = event.orgId, !.anio = event.anio,
       !.event = event, !.uuid = now + 1, !.scope = event.affectedScope,
       !.entry = [ userId |-> event.userId, orgId |-> event.orgId, accion |-> "UPDATE",
                   entidad |-> event.entity, entidadId |-> event.entityId,
                   campoModificado |-> JsStr(event.field),
                   valorAnterior |-> event.oldValue, valorNuevo |-> event.newValue,
                   timestamp |-> event.timestamp ]]]

\* HCOrchestrator.onCalculate, up to its first await
BeginCalculate(p, userId, orgId, anio) ==
  calls' = [calls EXCEPT ![p] =
    [IdleCall EXCEPT
       !.op = "onCalculate", !.pc = "log_read",
       !.userId = userId, !.orgId = orgId, !.anio = anio, !.uuid = now + 1,
       !.entry = [NoEntry EXCEPT !.userId = userId, !.orgId = orgId,
                    !.accion = "CALCULATE", !.entidad = "results",
                    !.timestamp = DateCell(now + 1, TRUE)]]]

\* HCOrchestrator.onExport, up to its first await
BeginExport(p, userId, orgId, tipo) ==
  calls' = [calls EXCEPT ![p] =
    [IdleCall EXCEPT
       !.op = "onExport", !.pc = "log_read",
       !.userId = userId, !.orgId = orgId, !.uuid = now + 1,
       !.entry = [NoEntry EXCEPT !.userId = userId, !.orgId = orgId,
                    !.accion = "EXPORT", !.entidad = "report",
                    !.entidadId = JsStr(tipo),
                    !.timestamp = DateCell(now + 1, TRUE)]]]

\* a pipeline that recalculates a change before anyone has validated it
AfterLogSinValidar(op) ==
  IF op = "onExport" THEN "done" ELSE "recalculate"

\* a pipeline that validates whatever it is asked to calculate
AfterLogValidando(op) ==
  IF op = "onExport" THEN "done" ELSE "validate"

\* a pipeline that recalculates on every call, exports included
AfterLogRecalculando(op) ==
  IF op = "onDataChange" THEN "validate" ELSE "recalculate"

\* ------------------------------------------------------- pipeline steps
\* where a call goes once auditAgent.log has resolved
AfterLog(op) ==
  IF op = "onDataChange" THEN "validate"
  ELSE IF op = "onCalculate" THEN "recalculate"
  ELSE "done"

\* appendRow, first half: await readCSV
LogRead(p) ==
  /\ calls[p].pc = "log_read"
  /\ calls' = [calls EXCEPT ![p].existingData = readCSV(audit_log),
                            ![p].pc = "log_write"]
  /\ UNCHANGED <<audit_log, jsonStore, pgStore, now>>
  /\ UNCHANGED guardVars

\* appendRow, second half: push and await writeCSV; auditAgent.log resolves
LogWrite(p) ==
  /\ calls[p].pc = "log_write"
  /\ audit_log' = appendRowWrite(calls[p].existingData,
                                 auditRow(calls[p].entry, calls[p].uuid))
  /\ calls' = [calls EXCEPT ![p].pc = AfterLog(calls[p].op),
                            ![p].existingData = <<>>,
                            ![p].stages = Append(@, "audit")]
  /\ UNCHANGED <<jsonStore, pgStore, now>>
  /\ UNCHANGED guardVars

\* onDataChange step 2: validationAgent.validate and the throw on an invalid
\* event; the warnings become alerts
Validate(p) ==
  /\ calls[p].pc = "validate"
  /\ LET v == validate(calls[p].event) IN
       calls' = [calls EXCEPT ![p] =
         IF v.threw
         THEN [@ EXCEPT !.pc = "failed", !.error = "TypeError",
                        !.stages = Append(@, "validate")]
         ELSE IF ~v.isValid
         THEN [@ EXCEPT !.pc = "failed", !.error = "ValidationError",
                        !.errors = v.errors, !.stages = Append(@, "validate")]
         ELSE [@ EXCEPT !.pc = "recalculate",
                        !.validation = [isValid |-> v.isValid, errors |-> v.errors],
                        !.alerts = @ \o SelectWarnings(v.errors),
                        !.stages = Append(@, "validate")]]
  /\ UNCHANGED <<audit_log, jsonStore, pgStore, now>>
  /\ UNCHANGED guardVars

\* json-store saveResults
jsonSaveResults(store, orgId, anio, data) ==
  IF orgId \in Orgs /\ anio \in Anios
  THEN [store EXCEPT ![orgId][anio].results = data]
  ELSE store    \* a directory the model does not hold

\* a recalculation that adds what it computes to the total the results file
\* already holds
recalculateSobrePrevios(scope, anio, d) ==
  LET r == Resultados(anio, d) IN
    IF d.results = NULL THEN r
    ELSE [r EXCEPT !.total_alcance_1_2_t_co2e = Mas(@, d.results.total_alcance_1_2_t_co2e)]

\* CalcAgent.recalculate({ orgId, anio, scope }) up to the save: scope is
\* destructured into _scope and never read; d is what the loaders return
recalculate(scope, anio, d) == Resultados(anio, d)

\* calcAgent.recalculate: loads, totals and saveResults run without an await
Recalculate(p) ==
  /\ calls[p].pc = "recalculate"
  /\ LET resultados == recalculate(calls[p].scope, calls[p].anio,
                                   jsonData(calls[p].orgId, calls[p].anio)) IN
       /\ jsonStore' = jsonSaveResults(jsonStore, calls[p].orgId, calls[p].anio, resultados)
       /\ calls' = [calls EXCEPT ![p].pc = IF calls[p].op = "recalculate" THEN "done"
                                           ELSE "checkThresholds",
                                 ![p].results = resultados,
                                 ![p].stages = Append(@, "recalculate")]
  /\ UNCHANGED <<audit_log, pgStore, now>>
  /\ UNCHANGED guardVars

\* this.checkThresholds (await loadResults of the year before) and the return
CheckThresholds(p) ==
  /\ calls[p].pc = "checkThresholds"
  /\ LET previousResults == Load(pgStore, calls[p].orgId, calls[p].anio - 1, "results") IN
       calls' = [calls EXCEPT
         ![p].pc = "done",
         ![p].alerts = @ \o checkThresholds(previousResults, calls[p].results, calls[p].anio),
         ![p].stages = Append(@, "checkThresholds")]
  /\ UNCHANGED <<audit_log, jsonStore, pgStore, now>>
  /\ UNCHANGED guardVars

\* ------------------------------------------------------------- requests
Usuario == "usr_001"

\* the (field, newValue) pairs of the change events tried
\* (the last one is the postal code "08001": a numeral that is not the text
\* of its number)
FieldValues ==
  { <<"cantidad", JsNum(-5)>>, <<"cantidad", JsNum(50)>>,
    <<"cantidad", JsNum(20000000)>>, <<"tipo_combustible", JsStr("Carbon vegetal")>>,
    <<"codigo_postal", JsText(Cell("num", 8001, "", FALSE))>> }

\* a caller's DataChangeEvent; canon: its timestamp is in toISOString() form
\* (z.string().datetime() also takes an instant written without milliseconds)
DataChangeEvent(orgId, anio, fv, canon) ==
  [ userId |-> Usuario, orgId |-> orgId, anio |-> anio,
    entity |-> "scope1_instalaciones_fijas", entityId |-> JsStr("inst_1"),
    field |-> fv[1],
    oldValue |-> IF fv[2].t = "number" THEN JsNum(10)
                 ELSE IF fv[1] = "tipo_combustible" THEN JsStr("Gasoleo C")
                 ELSE JsText(NumCell(28001)),
    newValue |-> fv[2], affectedScope |-> "scope1",
    timestamp |-> DateCell(now + 1, canon) ]

\* a caller invokes orchestrator.onDataChange(event)
DataChangeRequest(p) ==
  /\ CanStart(p)
  /\ \E orgId \in EventOrgs, anio \in EventAnios, fv \in FieldValues, canon \in BOOLEAN :
       /\ canon \/ (anio = 2025 /\ fv = <<"cantidad", JsNum(50)>>)
       /\ BeginDataChange(p, DataChangeEvent(orgId, anio, fv, canon))
  /\ now' = now + 1
  /\ UNCHANGED <<audit_log, jsonStore, pgStore>>
  /\ UNCHANGED guardVars

\* POST /api/calculate
CalculateRoute(p) ==
  /\ CanStart(p)
  /\ \E orgId \in Orgs, anio \in Anios : BeginCalculate(p, Usuario, orgId, anio)
  /\ now' = now + 1
  /\ UNCHANGED <<audit_log, jsonStore, pgStore>>
  /\ UNCHANGED guardVars

\* GET /api/reports?formato=excel|csv: the report is generated from loads
\* alone, then the export is logged
ReportsRoute(p) ==
  /\ CanStart(p)
  /\ \E orgId \in Orgs, formato \in {"excel", "csv"} : BeginExport(p, Usuario, orgId, formato)
  /\ now' = now + 1
  /\ UNCHANGED <<audit_log, jsonStore, pgStore>>
  /\ UNCHANGED guardVars

\* the year the POSTs tried are for
PostAnios == {2025}

\* payloads of POST /api/data
FugitivaPayloads == {[recarga_kg |-> 10, pca |-> 1430]}
ElectricidadPayloads ==
  { [kwh_consumidos |-> k, factor_mix_kg_co2_kwh |-> 250, garantia_origen |-> FALSE] :
      k \in {4400, 360000, 420000, 440000, 460000} }
  \cup { [kwh_consumidos |-> 2, factor_mix_kg_co2_kwh |-> 200, garantia_origen |-> FALSE] }
\* tipo scope1_instalacion_fija: cantidad in tenths of a unit, the factors in
\* thousandths, emisiones_totales_kg_co2e the total the payload itself
\* carries, in grams (NaN: the payload has no such field)
FactorEmision(co2, ch4, n2o) == [co2_kg_ud |-> co2, ch4_g_ud |-> ch4, n2o_g_ud |-> n2o]
FijaPayloads ==
  { [cantidad |-> 0, factor_emision |-> FactorEmision(2868, 40, 10),
     emisiones_totales_kg_co2e |-> 999000],
    [cantidad |-> 0, factor_emision |-> FactorEmision(2868, 40, 10),
     emisiones_totales_kg_co2e |-> NaN],
    [cantidad |-> 10, factor_emision |-> FactorEmision(400, 0, 0),
     emisiones_totales_kg_co2e |-> NaN],
    [cantidad |-> 25, factor_emision |-> FactorEmision(2001, 0, 0),
     emisiones_totales_kg_co2e |-> NaN],
    [cantidad |-> 10, factor_emision |-> FactorEmision(2868, 40, 10),
     emisiones_totales_kg_co2e |-> 5] }

\* POST /api/data, tipo scope1_instalacion_fija: the new item.  The payload
\* is spread first; the emissions are set only if (data.cantidad &&
\* data.factor_emision), and a factor_emision object is always truthy
instalacionFijaItem(data, uuid) ==
  LET calc == calcularEmisionesCombustible(data.cantidad, data.factor_emision) IN
    [ id |-> uuid, cantidad |-> data.cantidad, factor_emision |-> data.factor_emision,
      emisiones_parciales |->
        IF data.cantidad # 0
        THEN [co2_kg |-> calc.co2_kg, ch4_g |-> calc.ch4_g, n2o_g |-> calc.n2o_g]
        ELSE NULL,
      emisiones_totales_kg_co2e |->
        IF data.cantidad # 0 THEN calc.total_kg_co2e
        ELSE data.emisiones_totales_kg_co2e ]

\* POST /api/data (json store), tipo scope1_fugitiva: the new item
fugitivaItem(data, uuid) ==
  [ id |-> uuid, recarga_kg |-> data.recarga_kg, pca |-> data.pca,
    emisiones_kg_co2e |-> calcularEmisionesFugitivas(data.recarga_kg, data.pca) ]

\* POST /api/data (json store), tipo scope2_electricidad: the new item
electricidadItem(data, uuid) ==
  [ id |-> uuid, kwh_consumidos |-> data.kwh_consumidos,
    factor_mix_kg_co2_kwh |-> data.factor_mix_kg_co2_kwh,
    garantia_origen |-> data.garantia_origen,
    emisiones_kg_co2 |-> calcularEmisionesElectricidad(data.kwh_consumidos,
                           data.factor_mix_kg_co2_kwh, data.garantia_origen) ]

\* the files of one organization and year after the route's initialize, push
\* and save
postFugitiva(d, anio, data, uuid) ==
  LET ini == jsonInitializeOrgYear(d, anio) IN
    [ini EXCEPT !.scope1_fugitivas.climatizacion_refrigeracion =
                   Append(@, fugitivaItem(data, uuid))]
postInstalacionFija(d, anio, data, uuid) ==
  LET ini == jsonInitializeOrgYear(d, anio) IN
    [ini EXCEPT !.scope1_instalaciones_fijas.no_sujetas_ley_1_2005 =
                   Append(@, instalacionFijaItem(data, uuid))]
postElectricidad(d, anio, data, uuid) ==
  LET ini == jsonInitializeOrgYear(d, anio) IN
    [ini EXCEPT !.scope2_electricidad.electricidad_edificios =
                   Append(@, electricidadItem(data, uuid))]

Listed(d, tipo, lista) == IF d[tipo] = NULL THEN <<>> ELSE d[tipo][lista]

\* POST /api/data on the json store, tipo scope1_fugitiva, then onCalculate
PostFugitivaJson(p) ==
  /\ CanStart(p)
  /\ \E orgId \in EventOrgs, anio \in PostAnios, data \in FugitivaPayloads :
       /\ Len(Listed(jsonStore[orgId][anio], "scope1_fugitivas",
                     "climatizacion_refrigeracion")) < MaxItems
       /\ jsonStore' = [jsonStore EXCEPT ![orgId][anio] = postFugitiva(@, anio, data, now + 1)]
       /\ BeginCalculate(p, Usuario, orgId, anio)
  /\ now' = now + 1
  /\ UNCHANGED <<audit_log, pgStore>>
  /\ UNCHANGED guardVars

\* POST /api/data on the json store, tipo scope2_electricidad, then onCalculate
PostElectricidadJson(p) ==
  /\ CanStart(p)
  /\ \E orgId \in EventOrgs, anio \in PostAnios, data \in ElectricidadPayloads :
       /\ Len(Listed(jsonStore[orgId][anio], "scope2_electricidad",
                     "electricidad_edificios")) < MaxItems
       /\ jsonStore' = [jsonStore EXCEPT ![orgId][anio] = postElectricidad(@, anio, data, now + 1)]
       /\ BeginCalculate(p, Usuario, orgId, anio)
  /\ now' = now + 1
  /\ UNCHANGED <<audit_log, pgStore>>
  /\ UNCHANGED guardVars

\* POST /api/data on the json store, tipo scope1_instalacion_fija, then
\* onCalculate
PostFijaJson(p) ==
  /\ CanStart(p)
  /\ \E orgId \in EventOrgs, anio \in PostAnios, data \in FijaPayloads :
       /\ Len(Listed(jsonStore[orgId][anio], "scope1_instalaciones_fijas",
                     "no_sujetas_ley_1_2005")) < MaxItems
       /\ jsonStore' = [jsonStore EXCEPT ![orgId][anio] = postInstalacionFija(@, anio, data, now + 1)]
       /\ BeginCalculate(p, Usuario, orgId, anio)
  /\ now' = now + 1
  /\ UNCHANGED <<audit_log, pgStore>>
  /\ UNCHANGED guardVars

\* a caller invokes calcAgent.recalculate with a scope of its own, as
\* onDataChange does with the affectedScope of its event
RecalculateCall(p) ==
  /\ CanStart(p)
  /\ \E orgId \in EventOrgs, anio \in PostAnios, scope \in {"scope1", "scope2"} :
       calls' = [calls EXCEPT ![p] =
         [IdleCall EXCEPT !.op = "recalculate", !.pc = "recalculate",
                          !.orgId = orgId, !.anio = anio, !.scope = scope]]
  /\ UNCHANGED <<audit_log, jsonStore, pgStore, now>>
  /\ UNCHANGED guardVars

\* ------------------------------------------------- /api/data on PostgreSQL
\* a request slot serving nothing.  writer: the pg-store write in progress;
\* ret: where it resumes once guardWrite has let it through; stmts: the
\* data-modifying statements that write has issued; hit: getDatabaseSize
\* answered from the cache; guard: what checkWriteAllowed or getUsageInfo
\* returned.
IdleReq ==
  [ route |-> "none", pc |-> "idle", orgId |-> "", anio |-> 0, tipo |-> "",
    data |-> NULL, writer |-> "none", ret |-> "",
    current |-> NULL, pending |-> <<>>,
    gnow |-> 0, gbytes |-> 0, grows |-> 0, hit |-> FALSE, guard |-> NULL,
    stmts |-> 0, error |-> "none", status |-> 0, code |-> "" ]

Responded(r) == r.pc \in {"idle", "responded"}

\* SELECT COUNT(*) FROM org_year_data
RowCount ==
  usage.otherRows
    + Cardinality({x \in Orgs \X Anios \X Tipos : pgStore[x[1]][x[2]][x[3]] # NULL})

\* a pg-store whose saves skip guardWrite when the request is a DELETE
EnterWriteBorradoLibre(r, writer, ret) ==
  [r EXCEPT !.writer = writer, !.ret = ret,
            !.pc = IF r.route = "DELETE" THEN ret ELSE "gs_start",
            !.guard = NULL, !.hit = FALSE, !.stmts = 0]

\* a pg-store write begins: await guardWrite()
EnterWrite(r, writer, ret) ==
  [r EXCEPT !.writer = writer, !.ret = ret, !.pc = "gs_start",
            !.guard = NULL, !.hit = FALSE, !.stmts = 0]

\* the request once getDatabaseSize has resolved with size: getUsageInfo
\* answers; checkWriteAllowed gives guardWrite its result and guardWrite
\* throws or lets the write go on
AfterSize(r, size, hit) ==
  LET r0 == [r EXCEPT !.hit = hit, !.gnow = 0, !.gbytes = 0, !.grows = 0] IN
    IF r.route = "usage"
    THEN [r0 EXCEPT !.guard = getUsageInfo(size), !.pc = "responded", !.status = 200]
    ELSE LET result == checkWriteAllowed(size) IN
           IF guardWriteThrows(result)
           THEN [r0 EXCEPT !.guard = result, !.error = "FreeTierBlockedError",
                           !.pc = "catch"]
           ELSE [r0 EXCEPT !.guard = result, !.pc = r.ret]

\* a query the database does not answer rejects; the route's catch gets it
QueryFails(r) == [r EXCEPT !.error = "Error", !.pc = "catch"]

\* where POST goes once initializeOrgYear has returned
AfterInit(r) ==
  IF r.tipo = "sedes" THEN "load_sedes"
  ELSE "load"

\* initializeOrgYear's inserts, in order
InitInserts(anio) ==
  << <<"scope1_instalaciones_fijas", emptyScope1Fijas>>,
     <<"scope1_vehiculos", emptyScope1Vehiculos>>,
     <<"scope1_fugitivas", emptyScope1Fugitivas>>,
     <<"scope2_electricidad", emptyScope2>>,
     <<"results", emptyResults(anio)>> >>

\* a guard that takes a failed usage query for a full database
SinMedidaBloqueante(checkedAt) ==
  [bytes |-> HARD_LIMIT_BYTES, rows |-> 0, checkedAt |-> checkedAt]

\* getDatabaseSize's catch: what it returns when a usage query has failed
SinMedida(checkedAt) == [bytes |-> 0, rows |-> 0, checkedAt |-> checkedAt]

\* getDatabaseSize up to its first await: the clock is read and a fresh
\* cache is returned as it is
GetSizeStart(p) ==
  /\ reqs[p].pc = "gs_start"
  /\ reqs' = [reqs EXCEPT ![p] =
       IF CacheFresh(cache, now)
       THEN AfterSize(reqs[p], cache, TRUE)
       ELSE [@ EXCEPT !.gnow = now, !.pc = "gs_size"]]
  /\ UNCHANGED <<audit_log, jsonStore, pgStore, calls, now, cache, usage, sedes>>

\* SELECT pg_database_size(...); a rejection is caught and answered with zeros
GetSizeBytes(p) ==
  /\ reqs[p].pc = "gs_size"
  /\ reqs' = [reqs EXCEPT ![p] =
       IF usage.dbOk
       THEN [@ EXCEPT !.gbytes = usage.bytes, !.pc = "gs_rows"]
       ELSE AfterSize(reqs[p], SinMedida(reqs[p].gnow), FALSE)]
  /\ UNCHANGED <<audit_log, jsonStore, pgStore, calls, now, cache, usage, sedes>>

\* SELECT COUNT(*) FROM org_year_data: the database counts the rows; a
\* rejection is caught and answered with zeros
GetSizeRows(p) ==
  /\ reqs[p].pc = "gs_rows"
  /\ reqs' = [reqs EXCEPT ![p] =
       IF usage.dbOk
       THEN [@ EXCEPT !.grows = RowCount, !.pc = "gs_result"]
       ELSE AfterSize(reqs[p], SinMedida(reqs[p].gnow), FALSE)]
  /\ UNCHANGED <<audit_log, jsonStore, pgStore, calls, now, cache, usage, sedes>>

\* the count has arrived and getDatabaseSize resumes: the measurement is
\* cached and returned
GetSizeResult(p) ==
  /\ reqs[p].pc = "gs_result"
  /\ LET result == [bytes |-> reqs[p].gbytes, rows |-> reqs[p].grows,
                    checkedAt |-> reqs[p].gnow] IN
       /\ cache' = result
       /\ reqs' = [reqs EXCEPT ![p] = AfterSize(reqs[p], result, FALSE)]
  /\ UNCHANGED <<audit_log, jsonStore, pgStore, calls, now, usage, sedes>>

\* initializeOrgYear: SELECT 1 ... tipo = 'results'; an initialized year
\* returns, any other goes through guardWrite to the inserts
InitSelect(p) ==
  /\ reqs[p].pc = "init_select"
  /\ reqs' = [reqs EXCEPT ![p] =
       IF ~usage.dbOk THEN QueryFails(@)
       ELSE IF Load(pgStore, reqs[p].orgId, reqs[p].anio, "results") # NULL
       THEN [@ EXCEPT !.pc = AfterInit(reqs[p])]
       ELSE [EnterWrite(@, "initializeOrgYear", "init_insert")
               EXCEPT !.pending = InitInserts(reqs[p].anio)]]
  /\ UNCHANGED <<audit_log, jsonStore, pgStore, calls, now, cache, usage, sedes>>

\* initializeOrgYear: one INSERT ... ON CONFLICT DO NOTHING; after the last,
\* invalidateCache and the return
InitInsert(p) ==
  /\ reqs[p].pc = "init_insert"
  /\ LET r == reqs[p]
         ins == Head(r.pending)
         last == Len(r.pending) = 1
     IN IF ~usage.dbOk
        THEN /\ reqs' = [reqs EXCEPT ![p] = QueryFails(@)]
             /\ UNCHANGED <<pgStore, cache>>
        ELSE /\ pgStore' = [pgStore EXCEPT ![r.orgId][r.anio][ins[1]] =
                              IF @ = NULL THEN ins[2] ELSE @]
             /\ cache' = IF last THEN invalidateCache(cache) ELSE cache
             /\ reqs' = [reqs EXCEPT ![p] =
                  IF last
                  THEN [@ EXCEPT !.pending = <<>>, !.stmts = @ + 1, !.writer = "none",
                                 !.pc = AfterInit(r)]
                  ELSE [@ EXCEPT !.pending = Tail(@), !.stmts = @ + 1]]
  /\ UNCHANGED <<audit_log, jsonStore, calls, now, usage, sedes>>

\* POST / DELETE tipo scope1_fugitiva: loadScope1Fugitivas; with a row, the
\* new item is pushed (POST) or the items of id itemId are filtered out
\* (DELETE) and saveScope1Fugitivas begins
LoadCurrent(p) ==
  /\ reqs[p].pc = "load"
  /\ LET r == reqs[p]
         current == Load(pgStore, r.orgId, r.anio, "scope1_fugitivas")
     IN reqs' = [reqs EXCEPT ![p] =
          IF ~usage.dbOk THEN QueryFails(@)
          ELSE IF current = NULL THEN [@ EXCEPT !.pc = "onCalculate"]
          ELSE [EnterWrite(@, "upsertOrgData", "upsert") EXCEPT
                  !.current = [current EXCEPT !.climatizacion_refrigeracion =
                                 IF r.route = "DELETE"
                                 THEN SelectSeq(@, LAMBDA i : i.id # r.data.itemId)
                                 ELSE Append(@, fugitivaItem(r.data, now + 1))]]]
  /\ UNCHANGED <<audit_log, jsonStore, pgStore, calls, now, cache, usage, sedes>>

\* upsertOrgData after guardWrite: the INSERT ... ON CONFLICT DO UPDATE,
\* invalidateCache and the return
Upsert(p) ==
  /\ reqs[p].pc = "upsert"
  /\ LET r == reqs[p] IN
       IF ~usage.dbOk
       THEN /\ reqs' = [reqs EXCEPT ![p] = QueryFails(@)]
            /\ UNCHANGED <<pgStore, cache>>
       ELSE /\ pgStore' = [pgStore EXCEPT ![r.orgId][r.anio].scope1_fugitivas = r.current]
            /\ cache' = invalidateCache(cache)
            /\ reqs' = [reqs EXCEPT ![p] =
                 [@ EXCEPT !.stmts = @ + 1, !.writer = "none", !.current = NULL,
                           !.pc = "onCalculate"]]
  /\ UNCHANGED <<audit_log, jsonStore, calls, now, usage, sedes>>

\* POST tipo sedes: loadSedes, the push of data.sede, saveSedes begins
LoadSedes(p) ==
  /\ reqs[p].pc = "load_sedes"
  /\ LET r == reqs[p] IN
       reqs' = [reqs EXCEPT ![p] =
         IF ~usage.dbOk THEN QueryFails(@)
         ELSE [EnterWrite(@, "saveSedes", "sedes_delete") EXCEPT
                 !.pending = Append(sedes[r.orgId][r.anio], r.data)]]
  /\ UNCHANGED <<audit_log, jsonStore, pgStore, calls, now, cache, usage, sedes>>

\* saveSedes after guardWrite: DELETE FROM sedes WHERE org_id, anio
SedesDelete(p) ==
  /\ reqs[p].pc = "sedes_delete"
  /\ LET r == reqs[p] IN
       IF ~usage.dbOk
       THEN /\ reqs' = [reqs EXCEPT ![p] = QueryFails(@)]
            /\ UNCHANGED sedes
       ELSE /\ sedes' = [sedes EXCEPT ![r.orgId][r.anio] = <<>>]
            /\ reqs' = [reqs EXCEPT ![p] = [@ EXCEPT !.stmts = @ + 1, !.pc = "sedes_insert"]]
  /\ UNCHANGED <<audit_log, jsonStore, pgStore, calls, now, cache, usage>>

\* saveSedes: one INSERT INTO sedes; after the last, invalidateCache, the
\* return and the route's answer
SedesInsert(p) ==
  /\ reqs[p].pc = "sedes_insert"
  /\ LET r == reqs[p]
         last == Len(r.pending) = 1
     IN IF ~usage.dbOk
        THEN /\ reqs' = [reqs EXCEPT ![p] = QueryFails(@)]
             /\ UNCHANGED <<sedes, cache>>
        ELSE /\ sedes' = [sedes EXCEPT ![r.orgId][r.anio] = Append(@, Head(r.pending))]
             /\ cache' = IF last THEN invalidateCache(cache) ELSE cache
             /\ reqs' = [reqs EXCEPT ![p] =
                  IF last
                  THEN [@ EXCEPT !.pending = <<>>, !.stmts = @ + 1, !.writer = "none",
                                 !.pc = "responded", !.status = 200]
                  ELSE [@ EXCEPT !.pending = Tail(@), !.stmts = @ + 1]]
  /\ UNCHANGED <<audit_log, jsonStore, pgStore, calls, now, usage>>

\* POST: await orchestrator.onCalculate(userId, orgId, anio)
StartCalculate(p) ==
  /\ reqs[p].pc = "onCalculate"
  /\ BeginCalculate(p, Usuario, reqs[p].orgId, reqs[p].anio)
  /\ reqs' = [reqs EXCEPT ![p].pc = "await_calc"]
  /\ now' = now + 1
  /\ UNCHANGED <<audit_log, jsonStore, pgStore, cache, usage, sedes>>

\* POST: onCalculate has resolved; { success, results, alerts }
CalculateReturns(p) ==
  /\ reqs[p].pc = "await_calc"
  /\ calls[p].pc = "done"
  /\ reqs' = [reqs EXCEPT ![p] = [@ EXCEPT !.pc = "responded", !.status = 200]]
  /\ calls' = [calls EXCEPT ![p] = IdleCall]
  /\ UNCHANGED <<audit_log, jsonStore, pgStore, now, cache, usage, sedes>>

\* the route's catch: errorResponse(error)
Catch(p) ==
  /\ reqs[p].pc = "catch"
  /\ LET resp == errorResponse(reqs[p].error) IN
       reqs' = [reqs EXCEPT ![p] =
         [@ EXCEPT !.pc = "responded", !.status = resp.status, !.code = resp.code,
                   !.writer = "none", !.pending = <<>>, !.current = NULL]]
  /\ UNCHANGED <<audit_log, jsonStore, pgStore, calls, now, cache, usage, sedes>>

\* a new /api/data request may use slot p
CanServe(p) == Responded(reqs[p]) /\ Finished(calls[p])

PgAnios == {2025}

\* POST /api/data { tipo: 'scope1_fugitiva', data }
PostFugitivaPg(p) ==
  /\ CanServe(p)
  /\ Len(audit_log) < MaxLog
  /\ \E orgId \in EventOrgs, anio \in PgAnios, data \in FugitivaPayloads :
       /\ Len(Listed(pgStore[orgId][anio], "scope1_fugitivas",
                     "climatizacion_refrigeracion")) < MaxItems
       /\ reqs' = [reqs EXCEPT ![p] =
            [IdleReq EXCEPT !.route = "POST", !.pc = "init_select", !.orgId = orgId,
                            !.anio = anio, !.tipo = "scope1_fugitiva", !.data = data]]
  /\ UNCHANGED <<audit_log, jsonStore, pgStore, calls, now, cache, usage, sedes>>

\* POST /api/data { tipo: 'sedes', data: { sede } }
PostSedesPg(p) ==
  /\ CanServe(p)
  /\ \E orgId \in EventOrgs, anio \in PgAnios :
       /\ Len(sedes[orgId][anio]) < MaxItems
       /\ reqs' = [reqs EXCEPT ![p] =
            [IdleReq EXCEPT !.route = "POST", !.pc = "init_select", !.orgId = orgId,
                            !.anio = anio, !.tipo = "sedes",
                            !.data = [id |-> Len(sedes[orgId][anio]) + 1,
                                      nombre |-> "Sede central"]]]
  /\ UNCHANGED <<audit_log, jsonStore, pgStore, calls, now, cache, usage, sedes>>

\* DELETE /api/data { tipo: 'scope1_fugitiva', itemId }: the id of a stored
\* item, or one no item has
DeleteFugitivaPg(p) ==
  /\ CanServe(p)
  /\ Len(audit_log) < MaxLog
  /\ \E orgId \in EventOrgs, anio \in PgAnios :
       \E itemId \in {0} \cup
             LET lista == Listed(pgStore[orgId][anio], "scope1_fugitivas",
                                 "climatizacion_refrigeracion")
             IN {lista[i].id : i \in 1..Len(lista)} :
         reqs' = [reqs EXCEPT ![p] =
           [IdleReq EXCEPT !.route = "DELETE", !.pc = "load", !.orgId = orgId,
                           !.anio = anio, !.tipo = "scope1_fugitiva",
                           !.data = [itemId |-> itemId]]]
  /\ UNCHANGED <<audit_log, jsonStore, pgStore, calls, now, cache, usage, sedes>>

\* GET /api/data?tipo=usage: getUsageInfo
UsageRoute(p) ==
  /\ CanServe(p)
  /\ reqs' = [reqs EXCEPT ![p] = [IdleReq EXCEPT !.route = "usage", !.pc = "gs_start"]]
  /\ UNCHANGED <<audit_log, jsonStore, pgStore, calls, now, cache, usage, sedes>>

\* ------------------------------------------------------------ environment
\* database sizes around the two byte limits, rows held by other
\* organizations far from and near the row limit
BytesValues == {WARN_LIMIT_BYTES - 1, WARN_LIMIT_BYTES, HARD_LIMIT_BYTES - 1, HARD_LIMIT_BYTES}
OtherRowsValues == {0, MAX_ROWS - 5}
UsageStates == [bytes : BytesValues, otherRows : OtherRowsValues, dbOk : BOOLEAN]

\* the database grows or shrinks under the application
UsageChange ==
  /\ \E bytes \in BytesValues \ {usage.bytes} : usage' = [usage EXCEPT !.bytes = bytes]
  /\ UNCHANGED <<audit_log, jsonStore, pgStore, calls, now, cache, sedes, reqs>>

\* the database stops or resumes answering queries, between two requests or
\* while a request waits for the guard's measurement
Outage ==
  /\ \A p \in Procs : Responded(reqs[p]) \/ reqs[p].pc \in {"gs_size", "gs_rows"}
  /\ usage' = [usage EXCEPT !.dbOk = ~@]
  /\ UNCHANGED <<audit_log, jsonStore, pgStore, calls, now, cache, sedes, reqs>>

\* time passes: one millisecond short of the cache window, or the window
Tick ==
  /\ \E d \in {CACHE_TTL_MS - 1, CACHE_TTL_MS} :
       /\ now + d <= MaxNow
       /\ now' = now + d
  /\ UNCHANGED <<audit_log, jsonStore, pgStore, calls, cache, usage, sedes, reqs>>

\* ------------------------------------------------------------------- Init
\* org_year_data as migrate-to-neon leaves it for a year whose json files held
\* one electricity item and the results calculated from it
Migrated(anio, kwh) ==
  LET d == postElectricidad(SinDatos, anio,
             [kwh_consumidos |-> kwh, factor_mix_kg_co2_kwh |-> 250,
              garantia_origen |-> FALSE], 0)
  IN [d EXCEPT !.results = Resultados(anio, d)]

\* what org_year_data may hold for org_001 / 2024 when the process starts:
\* nothing, the empty rows of initializeOrgYear, or a migrated year
PgSeeds == { SinDatos, jsonInitializeOrgYear(SinDatos, 2024),
             Migrated(2024, 4000), Migrated(2024, 400000) }

EmptyStore == [o \in Orgs |-> [a \in Anios |-> SinDatos]]

Init ==
  /\ audit_log = <<>>
  /\ jsonStore = EmptyStore
  /\ \E seed \in PgSeeds : pgStore = [EmptyStore EXCEPT !["org_001"][2024] = seed]
  /\ calls = [p \in Procs |-> IdleCall]
  /\ now = 0
  /\ cache = NULL
  /\ usage = [bytes |-> WARN_LIMIT_BYTES - 1, otherRows |-> 0, dbOk |-> TRUE]
  /\ sedes = [o \in Orgs |-> [a \in Anios |-> <<>>]]
  /\ reqs = [p \in Procs |-> IdleReq]

\* one request at a time, in slot 1
Next ==
  \E p \in {1} :
    \/ DataChangeRequest(p)
    \/ CalculateRoute(p)
    \/ ReportsRoute(p)
    \/ PostFugitivaJson(p)
    \/ PostElectricidadJson(p)
    \/ PostFijaJson(p)
    \/ RecalculateCall(p)
    \/ LogRead(p)
    \/ LogWrite(p)
    \/ Validate(p)
    \/ Recalculate(p)
    \/ CheckThresholds(p)

Spec == Init /\ [][Next]_vars

\* ------------------------------------------------- the guarded data route
InitGuard ==
  /\ audit_log = <<>>
  /\ jsonStore = EmptyStore
  /\ pgStore = EmptyStore
  /\ calls = [p \in Procs |-> IdleCall]
  /\ now = 0
  /\ cache = NULL
  /\ usage \in UsageStates
  /\ sedes = [o \in Orgs |-> [a \in Anios |-> <<>>]]
  /\ reqs = [p \in Procs |-> IdleReq]

\* one /api/data request at a time, in slot 1, against a database whose
\* usage changes under it
NextGuard ==
  \E p \in {1} :
    \/ PostFugitivaPg(p)
    \/ PostSedesPg(p)
    \/ DeleteFugitivaPg(p)
    \/ UsageRoute(p)
    \/ InitSelect(p)
    \/ GetSizeStart(p)
    \/ GetSizeBytes(p)
    \/ GetSizeRows(p)
    \/ GetSizeResult(p)
    \/ InitInsert(p)
    \/ LoadCurrent(p)
    \/ Upsert(p)
    \/ LoadSedes(p)
    \/ SedesDelete(p)
    \/ SedesInsert(p)
    \/ StartCalculate(p)
    \/ CalculateReturns(p)
    \/ Catch(p)
    \/ LogRead(p)
    \/ LogWrite(p)
    \/ Recalculate(p)
    \/ CheckThresholds(p)
    \/ UsageChange
    \/ Outage
    \/ Tick

SpecGuard == InitGuard /\ [][NextGuard]_vars

\* ------------------------------------- the exported functions, called alone
\* arguments tried: cantidad in tenths of a unit, factors in thousandths
ArgsCombustible ==
  { [cantidad |-> cantidad, fe |-> FactorEmision(co2, ch4, n2o)] :
      cantidad \in {0, 5, 10, 15, 25}, co2 \in {0, 400, 2001, 2868},
      ch4 \in {0, 40, 10000}, n2o \in {0, 10, 5000} }
ArgsFugitivas ==
  { [recarga_kg |-> recarga_kg, pca_gas |-> pca_gas] :
      recarga_kg \in {0, 1, 10}, pca_gas \in {1, 1430, 22800} }
\* the factor in thousandths of a kg CO2 per kWh
ArgsElectricidad ==
  { [kwh_consumidos |-> kwh, factor_mix_kg_co2_kwh |-> factor, tiene_gdo |-> tiene_gdo] :
      kwh \in {0, 2, 4400, 100000}, factor \in {0, 200, 250, 260}, tiene_gdo \in BOOLEAN }
ValidateAnios == {2006, 2007, 2024, 2025, 2027, 2028}

\* json-store filterByOrg on audit_log: the rows read whose org_id is orgId
\* (no row of the log has an organizacion_id)
filterByOrg(file, orgId) == SelectSeq(readCSV(file), LAMBDA row : row.org_id = JsStr(orgId))

RECURSIVE sortNewestFirst(_)
\* logs.sort((a, b) => new Date(b.timestamp).getTime() -
\* new Date(a.timestamp).getTime()): newest first, rows of the same instant
\* in the order they had (the sort is stable)
sortNewestFirst(logs) ==
  IF logs = <<>> THEN <<>>
  ELSE LET ultimo == logs[Len(logs)]
           antes == sortNewestFirst(SubSeq(logs, 1, Len(logs) - 1))
           k == Cardinality({i \in 1..Len(antes) : antes[i].timestamp.n >= ultimo.timestamp.n})
       IN SubSeq(antes, 1, k) \o <<ultimo>> \o SubSeq(antes, k + 1, Len(antes))

\* the N rows of an organization that come first in the file
getRecentSinOrdenar(file, orgId, limit) ==
  LET logs == filterByOrg(file, orgId) IN
    SubSeq(logs, 1, IF limit < Len(logs) THEN limit ELSE Len(logs))

\* AuditAgent.getRecent(orgId, limit), limit >= 0
getRecent(file, orgId, limit) ==
  LET logs == sortNewestFirst(filterByOrg(file, orgId)) IN
    SubSeq(logs, 1, IF limit < Len(logs) THEN limit ELSE Len(logs))

\* the audit logs getRecent is tried on: up to MaxFilas CALCULATE rows of
\* either organization, with instants 1..3 in any order
LogsPosibles ==
  LET fila(org, t, i) ==
        auditRow([NoEntry EXCEPT !.userId = Usuario, !.orgId = org,
                    !.accion = "CALCULATE", !.entidad = "results",
                    !.timestamp = DateCell(t, TRUE)], i)
      elecciones(n) == [1..n -> Orgs \X {1, 2, 3}]
  IN UNION { { writeCSV([i \in 1..n |-> fila(e[i][1], e[i][2], i)]) : e \in elecciones(n) } :
             n \in 0..MaxFilas }

\* a call of function fn with arguments args that has returned ret
Returned(fn, args, ret) ==
  [IdleCall EXCEPT !.op = fn, !.pc = "done", !.args = args, !.results = ret]

CallCombustible(p) ==
  /\ \E args \in ArgsCombustible :
       calls' = [calls EXCEPT ![p] =
         Returned("calcularEmisionesCombustible", args,
                  calcularEmisionesCombustible(args.cantidad, args.fe))]
  /\ UNCHANGED <<audit_log, jsonStore, pgStore, now>>
  /\ UNCHANGED guardVars

CallFugitivas(p) ==
  /\ \E args \in ArgsFugitivas :
       calls' = [calls EXCEPT ![p] =
         Returned("calcularEmisionesFugitivas", args,
                  calcularEmisionesFugitivas(args.recarga_kg, args.pca_gas))]
  /\ UNCHANGED <<audit_log, jsonStore, pgStore, now>>
  /\ UNCHANGED guardVars

CallElectricidad(p) ==
  /\ \E args \in ArgsElectricidad :
       calls' = [calls EXCEPT ![p] =
         Returned("calcularEmisionesElectricidad", args,
                  calcularEmisionesElectricidad(args.kwh_consumidos,
                    args.factor_mix_kg_co2_kwh, args.tiene_gdo))]
  /\ UNCHANGED <<audit_log, jsonStore, pgStore, now>>
  /\ UNCHANGED guardVars

\* validationAgent.validate(event) awaited by a caller: what it returns, or
\* that it threw
CallValidate(p) ==
  /\ \E orgId \in EventOrgs, anio \in ValidateAnios, fv \in FieldValues, canon \in BOOLEAN :
       LET event == DataChangeEvent(orgId, anio, fv, canon) IN
         calls' = [calls EXCEPT ![p] = Returned("validate", event, validate(event))]
  /\ UNCHANGED <<audit_log, jsonStore, pgStore, now>>
  /\ UNCHANGED guardVars

\* a caller awaits auditAgent.getRecent(orgId, limit)
CallGetRecent(p) ==
  /\ \E orgId \in Orgs, limit \in 0..3 :
       calls' = [calls EXCEPT ![p] =
         Returned("getRecent", [orgId |-> orgId, limit |-> limit],
                  getRecent(audit_log, orgId, limit))]
  /\ UNCHANGED <<audit_log, jsonStore, pgStore, now>>
  /\ UNCHANGED guardVars

InitEngine ==
  /\ audit_log = <<>>
  /\ jsonStore = EmptyStore
  /\ pgStore = EmptyStore
  /\ calls = [p \in Procs |-> IdleCall]
  /\ now = 0
  /\ cache = NULL
  /\ usage = [bytes |-> WARN_LIMIT_BYTES - 1, otherRows |-> 0, dbOk |-> TRUE]
  /\ sedes = [o \in Orgs |-> [a \in Anios |-> <<>>]]
  /\ reqs = [p \in Procs |-> IdleReq]

NextEngine ==
  \E p \in {1} :
    \/ CallCombustible(p)
    \/ CallFugitivas(p)
    \/ CallElectricidad(p)
    \/ CallValidate(p)

SpecEngine == InitEngine /\ [][NextEngine]_vars

\* ---------------------------------------------- concurrent /api/data requests
\* both request slots in use against a database that answers: a request
\* runs between any two awaits of the other
NextGuardConc ==
  \E p \in Procs :
    \/ PostFugitivaPg(p)
    \/ UsageRoute(p)
    \/ InitSelect(p)
    \/ GetSizeStart(p)
    \/ GetSizeBytes(p)
    \/ GetSizeRows(p)
    \/ GetSizeResult(p)
    \/ InitInsert(p)
    \/ LoadCurrent(p)
    \/ Upsert(p)
    \/ StartCalculate(p)
    \/ CalculateReturns(p)
    \/ LogRead(p)
    \/ LogWrite(p)
    \/ Recalculate(p)
    \/ CheckThresholds(p)

SpecGuardConc == InitEngine /\ [][NextGuardConc]_vars

\* ----------------------------------------------------- concurrent calls
\* both request slots in use: a call started while another is between two
\* awaits runs interleaved with it.  The calls are onExport calls, which
\* consist of auditAgent.log alone
NextConc ==
  \E p \in Procs :
    \/ ReportsRoute(p)
    \/ LogRead(p)
    \/ LogWrite(p)

SpecConc == Init /\ [][NextConc]_vars

\* ------------------------------------------- the pipeline on failing storage
\* a storage call of the pipeline throws or rejects: readCSV / writeCSV
\* inside appendRow (fs.readFileSync, fs.writeFileSync), writeJSON inside
\* saveResults (nothing is saved), or the query of pg-store loadResults
\* inside checkThresholds.  No function on the way up catches: the call
\* rejects with that error
StorageThrows(p) ==
  /\ calls[p].pc \in {"log_read", "log_write", "recalculate", "checkThresholds"}
  /\ calls' = [calls EXCEPT ![p].pc = "failed",
                            ![p].error = IF calls[p].pc = "checkThresholds"
                                         THEN "DatabaseError" ELSE "EIO",
                            ![p].existingData = <<>>]
  /\ UNCHANGED <<audit_log, jsonStore, pgStore, now>>
  /\ UNCHANGED guardVars

\* the json files of org_001 / 2025 when the process starts: one fugitive
\* record, with every file readable or with the fugitive file unreadable
JsonSeeds ==
  LET d == postFugitiva(jsonInitializeOrgYear(SinDatos, 2025), 2025,
               [recarga_kg |-> 10, pca |-> 1430], 0)
  IN { d, [d EXCEPT !.scope1_fugitivas = Ilegible] }

InitFallos ==
  /\ audit_log = <<>>
  /\ \E seed \in JsonSeeds : jsonStore = [EmptyStore EXCEPT !["org_001"][2025] = seed]
  /\ \E seed \in PgSeeds : pgStore = [EmptyStore EXCEPT !["org_001"][2024] = seed]
  /\ calls = [p \in Procs |-> IdleCall]
  /\ now = 0
  /\ cache = NULL
  /\ usage = [bytes |-> WARN_LIMIT_BYTES - 1, otherRows |-> 0, dbOk |-> TRUE]
  /\ sedes = [o \in Orgs |-> [a \in Anios |-> <<>>]]
  /\ reqs = [p \in Procs |-> IdleReq]

\* a call that failed before its row was written leaves the log as short as
\* it was: the requests are counted by the clock instead
NextFallos ==
  \E p \in {1} :
    \/ now < MaxLog /\ DataChangeRequest(p)
    \/ now < MaxLog /\ CalculateRoute(p)
    \/ LogRead(p)
    \/ LogWrite(p)
    \/ Validate(p)
    \/ Recalculate(p)
    \/ CheckThresholds(p)
    \/ StorageThrows(p)

SpecFallos == InitFallos /\ [][NextFallos]_vars

\* ------------------------------------------------ the audit log's queries
\* getRecent applied to every log of LogsPosibles
InitLog ==
  /\ audit_log \in LogsPosibles
  /\ jsonStore = EmptyStore
  /\ pgStore = EmptyStore
  /\ calls = [p \in Procs |-> IdleCall]
  /\ now = 0
  /\ cache = NULL
  /\ usage = [bytes |-> WARN_LIMIT_BYTES - 1, otherRows |-> 0, dbOk |-> TRUE]
  /\ sedes = [o \in Orgs |-> [a \in Anios |-> <<>>]]
  /\ reqs = [p \in Procs |-> IdleReq]

NextLog == \E p \in {1} : CallGetRecent(p)

SpecLog == InitLog /\ [][NextLog]_vars


\* ====================================================== properties: pipeline
Range(seq) == {seq[i] : i \in 1..Len(seq)}

\* the rows of audit_log.csv that carry the id call c gave its entry
FilasDe(c) == {i \in 1..Len(audit_log) : audit_log[i].id = TxtCell("aud_" \o ToString(c.uuid))}

\* row is the UPDATE entry of the change event of call c
EsFilaUpdate(row, c) ==
  /\ row.id = TxtCell("aud_" \o ToString(c.uuid))
  /\ row.accion = TxtCell("UPDATE")
  /\ row.user_id = TxtCell(c.event.userId)
  /\ row.org_id = TxtCell(c.event.orgId)
  /\ row.entidad_tipo = TxtCell(c.event.entity)
  /\ row.campo_modificado = TxtCell(c.event.field)
  /\ row.valor_nuevo = c.event.newValue.c
  /\ row.timestamp.k = "date"
  /\ row.timestamp.n = c.event.timestamp.n

\* C1: once an onDataChange call has come to validation, and in every later
\* state of the call, validation's rejection included, the audit log holds the
\* UPDATE entry of its event; validation is never the first stage
C1_AuditBeforeValidation ==
  \A p \in Procs :
    LET c == calls[p] IN
      (c.op = "onDataChange"
         /\ c.pc \in {"validate", "recalculate", "checkThresholds", "done", "failed"})
      => /\ \E i \in 1..Len(audit_log) : EsFilaUpdate(audit_log[i], c)
         /\ c.stages # <<>> /\ c.stages[1] = "audit"

\* C1 witness: validation has rejected an event and its entry is in the log
C1_Witness ==
  \E p \in Procs :
    /\ calls[p].op = "onDataChange"
    /\ calls[p].pc = "failed"
    /\ calls[p].error = "ValidationError"
    /\ \E i \in 1..Len(audit_log) : EsFilaUpdate(audit_log[i], calls[p])

EsNegativo(event) == event.newValue.t = "number" /\ event.newValue.n < 0

\* C2: an onDataChange call whose event has a negative numeric new value ends
\* without having run the recalculation and with a ValidationError whose error
\* list has an error-severity entry for the event's field
C2_NegativeRejected ==
  \A p \in Procs :
    LET c == calls[p] IN
      (c.op = "onDataChange" /\ EsNegativo(c.event) /\ c.pc \in {"done", "failed"})
      => /\ "recalculate" \notin Range(c.stages)
         /\ c.error = "ValidationError"
         /\ \E i \in 1..Len(c.errors) :
              c.errors[i].field = c.event.field /\ c.errors[i].severity = "error"

Umbrales(alerts) == {i \in 1..Len(alerts) : alerts[i].tipo = "umbral"}

\* C7: a call that has recalculated against a prior year with a positive
\* persisted total returns a threshold alert iff the absolute change is
\* strictly more than 10 % of the prior total, and the alert names the
\* direction and the percentage of the change
C7_AlertIffOverTenPercent ==
  \A p \in Procs :
    LET c == calls[p]
        prev == Load(pgStore, c.orgId, c.anio - 1, "results")
    IN (c.op \in {"onCalculate", "onDataChange"} /\ c.pc = "done" /\ prev # NULL
          /\ prev.total_alcance_1_2_t_co2e > 0
          /\ c.results.total_alcance_1_2_t_co2e # NaN)
       => LET p0 == prev.total_alcance_1_2_t_co2e
              c0 == c.results.total_alcance_1_2_t_co2e
          IN /\ (Umbrales(c.alerts) # {}) = (100 * Abs(c0 - p0) > 10 * p0)
             /\ Cardinality(Umbrales(c.alerts)) <= 1
             /\ \A i \in Umbrales(c.alerts) :
                  /\ c.alerts[i].direccion = IF c0 > p0 THEN "AUMENTO" ELSE "REDUCCION"
                  /\ c.alerts[i].pct10 = RedondearDiv(1000 * Abs(c0 - p0), p0)

\* the validation rules give this event warnings and no error: a year in
\* range, no negative value, and an unusually high quantity or a fuel that is
\* not in the lists
SoloAvisos(event) ==
  /\ event.anio >= ANIO_MIN /\ event.anio <= ANIO_MAX
  /\ ~EsNegativo(event)
  /\ \/ (event.newValue.t = "number" /\ FieldIncludesCantidad(event.field)
           /\ event.newValue.n > CANTIDAD_MAX)
     \/ (event.field = "tipo_combustible" /\ event.newValue.t = "string"
           /\ event.newValue.c.s \notin (DropdownsData.tipos_combustible_fijo
                                           \cup DropdownsData.tipos_combustible_vehiculo))

\* C8: an onDataChange call whose event only draws warnings comes to return
\* results, and the alerts a successful call returns are the warnings of its
\* validation, each once, followed by the threshold alerts
C8_WarningsThenThresholds ==
  \A p \in Procs :
    LET c == calls[p] IN
      (c.op = "onDataChange" /\ c.pc \in {"done", "failed"})
      => /\ SoloAvisos(c.event) => (c.pc = "done" /\ c.results # NULL)
         /\ c.pc = "done" =>
              LET w == SelectWarnings(c.validation.errors) IN
                /\ Len(c.alerts) >= Len(w)
                /\ SubSeq(c.alerts, 1, Len(w)) = w
                /\ \A i \in (Len(w) + 1)..Len(c.alerts) : c.alerts[i].tipo = "umbral"

\* C9: an onCalculate call never validates and never fails; once its entry is
\* written the log holds exactly one row of the call, a CALCULATE row; it ends
\* having run audit, recalculation and threshold check in that order, with the
\* results it persisted and with threshold alerts only
C9_CalculateContract ==
  \A p \in Procs :
    LET c == calls[p] IN
      c.op = "onCalculate"
      => /\ "validate" \notin Range(c.stages)
         /\ c.pc # "failed"
         /\ c.pc \in {"recalculate", "checkThresholds", "done"} =>
              /\ Cardinality(FilasDe(c)) = 1
              /\ \A i \in FilasDe(c) :
                   /\ audit_log[i].accion = TxtCell("CALCULATE")
                   /\ audit_log[i].org_id = TxtCell(c.orgId)
                   /\ audit_log[i].user_id = TxtCell(c.userId)
         /\ c.pc = "done" =>
              /\ c.stages = <<"audit", "recalculate", "checkThresholds">>
              /\ c.results # NULL
              /\ c.results = Load(jsonStore, c.orgId, c.anio, "results")
              /\ \A i \in 1..Len(c.alerts) : c.alerts[i].tipo = "umbral"

\* C9 witness: an onCalculate call has returned results with a threshold alert
C9_Witness ==
  \E p \in Procs :
    /\ calls[p].op = "onCalculate"
    /\ calls[p].pc = "done"
    /\ calls[p].alerts # <<>>
    /\ Cardinality(FilasDe(calls[p])) = 1

\* C10: an onExport call ends after the audit stage alone, with exactly one
\* row of the call in the log, an EXPORT row, and with nothing to return; no
\* step of the call changes the activity records or the results of any
\* organization and year, in either store
C10_ExportOnlyLogs ==
  /\ [](\A p \in Procs :
          LET c == calls[p] IN
            c.op = "onExport"
            => /\ c.pc \in {"log_read", "log_write", "done"}
               /\ c.results = NULL /\ c.alerts = <<>>
               /\ c.pc = "done" =>
                    /\ c.stages = <<"audit">>
                    /\ Cardinality(FilasDe(c)) = 1
                    /\ \A i \in FilasDe(c) :
                         /\ audit_log[i].accion = TxtCell("EXPORT")
                         /\ audit_log[i].org_id = TxtCell(c.orgId))
  /\ [][\A p \in Procs :
          (calls'[p].op = "onExport" /\ calls'[p] # calls[p])
          => /\ UNCHANGED <<jsonStore, pgStore, sedes>>
             /\ Len(audit_log') \in {Len(audit_log), Len(audit_log) + 1}]_vars

\* C10 witness: an export has been logged while results are persisted
C10_Witness ==
  \E p \in Procs :
    /\ calls[p].op = "onExport"
    /\ calls[p].pc = "done"
    /\ Cardinality(FilasDe(calls[p])) = 1
    /\ \E o \in Orgs, a \in Anios :
         /\ jsonStore[o][a].results # NULL
         /\ jsonStore[o][a].results.total_alcance_1_2_t_co2e > 0

\* ================================================= properties: storage guard
\* the pg-store write of slot p returns to its caller in this step
WriteReturns(p) ==
  /\ reqs[p].writer # "none"
  /\ reqs'[p].writer = "none"
  /\ reqs'[p].error = "none"

\* slot p takes this step
Avanza(p) == reqs'[p] # reqs[p]

\* C3: the step in which upsertOrgData, saveSedes or initializeOrgYear returns
\* leaves the guard cache cleared; a cleared cache stays cleared until a
\* getDatabaseSize has measured the rows the table then holds; and a
\* getDatabaseSize that finds the cache cleared goes on to query
C3_WritesInvalidate ==
  [][/\ \A p \in Procs : WriteReturns(p) => cache' = NULL
     /\ (cache = NULL /\ cache' # NULL)
          => \E p \in Procs : /\ reqs[p].pc = "gs_result" /\ Avanza(p)
                              /\ cache'.rows = RowCount
     /\ \A p \in Procs :
          (reqs[p].pc = "gs_start" /\ Avanza(p) /\ cache = NULL)
          => (reqs'[p].pc = "gs_size" /\ reqs'[p].guard = NULL)]_vars

\* C3 witness: a write that went through a measuring guard has returned and
\* the cache is cleared
C3_Witness ==
  \E p \in Procs :
    /\ reqs[p].pc = "onCalculate"
    /\ reqs[p].writer = "none"
    /\ reqs[p].stmts >= 1
    /\ reqs[p].guard # NULL
    /\ ~reqs[p].hit
    /\ cache = NULL

\* C4: a getDatabaseSize begun less than 60 s after the cached measurement
\* was taken leaves the cache alone and answers with its sizes, and the verdict
\* is the one those sizes give whatever the database now holds; one begun
\* when 60 s or more have passed, or with no cache, queries the database, and
\* what it then returns and caches is what the database answered
C4_CacheWindow ==
  [][\A p \in Procs :
       /\ (reqs[p].pc = "gs_start" /\ Avanza(p))
          => IF cache # NULL /\ now - cache.checkedAt < 60000
             THEN /\ cache' = cache
                  /\ reqs'[p].hit
                  /\ reqs'[p].guard # NULL
                  /\ reqs'[p].guard.rowCount = cache.rows
                  /\ reqs[p].route = "POST"
                       => /\ reqs'[p].guard.dbSizeBytes = cache.bytes
                          /\ reqs'[p].guard.allowed
                               = ~(cache.bytes >= HARD_LIMIT_BYTES \/ cache.rows >= MAX_ROWS)
             ELSE /\ reqs'[p].pc = "gs_size"
                  /\ reqs'[p].gnow = now
                  /\ reqs'[p].guard = NULL
       /\ (reqs[p].pc = "gs_size" /\ Avanza(p) /\ usage.dbOk)
          => reqs'[p].gbytes = usage.bytes
       /\ (reqs[p].pc = "gs_rows" /\ Avanza(p) /\ usage.dbOk)
          => reqs'[p].grows = RowCount
       /\ (reqs[p].pc = "gs_result" /\ Avanza(p))
          => /\ cache' = [bytes |-> reqs[p].gbytes, rows |-> reqs[p].grows,
                          checkedAt |-> reqs[p].gnow]
             /\ ~reqs'[p].hit
             /\ reqs'[p].guard.rowCount = reqs[p].grows
             /\ reqs[p].route = "POST" => reqs'[p].guard.dbSizeBytes = reqs[p].gbytes]_vars

\* C4 witness: a write was checked against the cache and got the verdict of
\* the cached sizes, which is not the one the database's size now gives
C4_Witness ==
  \E p \in Procs :
    /\ reqs[p].route = "POST"
    /\ reqs[p].pc \in {"catch", "init_insert", "upsert", "sedes_delete"}
    /\ reqs[p].hit
    /\ reqs[p].guard.dbSizeBytes # usage.bytes
    /\ reqs[p].guard.allowed # (usage.bytes < HARD_LIMIT_BYTES)

\* C5: every result of checkWriteAllowed is this function of the sizes in it:
\* not allowed, with an error message, iff the bytes are at or over the hard
\* limit or the rows at or over the row limit; a warning iff allowed and the
\* bytes are at or over the warn limit
C5_VerdictFunction ==
  \A p \in Procs :
    LET g == reqs[p].guard IN
      (reqs[p].route = "POST" /\ g # NULL)
      => /\ g.allowed = ~(g.dbSizeBytes >= HARD_LIMIT_BYTES \/ g.rowCount >= MAX_ROWS)
         /\ (g.error # "none") = ~g.allowed
         /\ g.warning = (g.allowed /\ g.dbSizeBytes >= WARN_LIMIT_BYTES)

\* C5 witness: a measurement of exactly the hard limit was refused
C5_Witness ==
  \E p \in Procs :
    /\ reqs[p].route = "POST"
    /\ reqs[p].guard # NULL
    /\ reqs[p].guard.dbSizeBytes = HARD_LIMIT_BYTES
    /\ reqs[p].guard.rowCount < MAX_ROWS
    /\ ~reqs[p].guard.allowed

\* C6: a write the guard has refused holds a FreeTierBlockedError and has
\* issued no statement, and no step of its request from then on changes a
\* table; the answer is 507 / FREE_TIER_EXCEEDED for that error and for no
\* other, 500 for every other error (a ValidationError too)
C6_BlockedWrite ==
  /\ [](\A p \in Procs :
          LET r == reqs[p] IN
            /\ (r.route = "POST" /\ r.guard # NULL /\ ~r.guard.allowed)
               => /\ r.error = "FreeTierBlockedError"
                  /\ r.stmts = 0
                  /\ r.pc \in {"catch", "responded"}
            /\ (r.route = "POST" /\ r.pc = "responded")
               => /\ (r.status = 507) = (r.error = "FreeTierBlockedError")
                  /\ (r.code = "FREE_TIER_EXCEEDED") = (r.error = "FreeTierBlockedError")
                  /\ (r.status = 500) = (r.error \notin {"none", "FreeTierBlockedError"})
                  /\ (r.status = 200) = (r.error = "none")
            /\ errorResponse("ValidationError").status = 500)
  /\ [][\A p \in Procs :
          (reqs'[p].error = "FreeTierBlockedError" /\ Avanza(p))
          => UNCHANGED <<pgStore, sedes>>]_vars

\* C6 witness: a refused upsert was answered 507 with the row it would have
\* replaced as it was
C6_Witness ==
  \E p \in Procs :
    /\ reqs[p].pc = "responded"
    /\ reqs[p].tipo = "scope1_fugitiva"
    /\ reqs[p].status = 507
    /\ reqs[p].stmts = 0
    /\ pgStore[reqs[p].orgId][reqs[p].anio].scope1_fugitivas = emptyScope1Fugitivas


\* ================================================= properties: calculation
\* the step of slot p in which calcAgent.recalculate runs
RecalculaEnPaso(p) == calls[p].pc = "recalculate" /\ calls'[p].pc # "recalculate"

\* the records of one organization and year, the results file left out
Registros(orgId, anio) == [jsonData(orgId, anio) EXCEPT !.results = NULL]

\* the whole kilograms of the emissions of one list of records
KgDe(d, tipo, lista, campo) == Redondear3(SumCampo(Listed(d, tipo, lista), campo))

\* C11: every recalculation, whatever its scope, computes all the subtotals
\* of both scopes from the records persisted when it runs and replaces the
\* stored results with them: what is stored afterwards depends on the
\* records alone, not on the results stored before
C11_RecalculationFromRecords ==
  [][\A p \in Procs :
       RecalculaEnPaso(p) =>
         LET c == calls[p]
             d == Registros(c.orgId, c.anio)
             r == jsonStore'[c.orgId][c.anio].results
         IN /\ r = Resultados(c.anio, d)
            /\ calls'[p].results = r
            /\ r.alcance_1.instalaciones_fijas_no_ley =
                 KgDe(d, "scope1_instalaciones_fijas", "no_sujetas_ley_1_2005",
                      "emisiones_totales_kg_co2e")
            /\ r.alcance_1.fugitivas =
                 KgDe(d, "scope1_fugitivas", "climatizacion_refrigeracion", "emisiones_kg_co2e")
            /\ r.alcance_2.electricidad_edificios =
                 KgDe(d, "scope2_electricidad", "electricidad_edificios", "emisiones_kg_co2")]_vars

\* a recalculation asked for scope 1 alone has replaced results that were
\* stored before it and holds a scope 2 subtotal
C11_Witness ==
  \E p \in Procs :
    LET c == calls[p] IN
      /\ c.op = "recalculate" /\ c.scope = "scope1" /\ c.pc = "done"
      /\ Len(audit_log) = 1
      /\ c.results.alcance_2.electricidad_edificios > 0
      /\ jsonStore[c.orgId][c.anio].results = c.results

\* every results object the store holds or a call has returned
ResultadosGuardados ==
  {jsonStore[o][a].results : o \in Orgs, a \in Anios}
    \cup {calls[p].results : p \in {q \in Procs : calls[q].op \in {"onCalculate", "recalculate"}}}

\* C12: in every results object the scope 1 total is the sum of the seven
\* stored scope 1 subtotals, the scope 2 total the sum of the three stored
\* scope 2 subtotals, and the grand total the sum of the two stored totals
C12_TotalsAreSums ==
  \A r \in ResultadosGuardados :
    r # NULL =>
      /\ r.alcance_1.total_t_co2e =
           Mas(Mas(Mas(Mas(Mas(Mas(r.alcance_1.instalaciones_fijas_no_ley,
                                   r.alcance_1.instalaciones_fijas_ley),
                               r.alcance_1.transporte_carretera),
                           r.alcance_1.transporte_ferroviario_maritimo_aereo),
                       r.alcance_1.maquinaria),
                   r.alcance_1.fugitivas),
               r.alcance_1.proceso)
      /\ r.alcance_2.total_t_co2e =
           Mas(Mas(r.alcance_2.electricidad_edificios, r.alcance_2.electricidad_vehiculos),
               r.alcance_2.calor_vapor_frio)
      /\ r.total_alcance_1_2_t_co2e = Mas(r.alcance_1.total_t_co2e, r.alcance_2.total_t_co2e)

\* the records of one list, over every organization and year of the json store
RegistrosDe(tipo, lista) ==
  UNION {Range(Listed(jsonStore[o][a], tipo, lista)) : o \in Orgs, a \in Anios}

\* C13: every record a POST to /api/data has added holds a cached emission
\* total that is a number, is not negative and is what the engine function
\* gives for the record's own quantity and factor
C13_CachedTotalIsEngineValue ==
  /\ \A x \in RegistrosDe("scope1_instalaciones_fijas", "no_sujetas_ley_1_2005") :
       /\ x.emisiones_totales_kg_co2e # NaN
       /\ x.emisiones_totales_kg_co2e >= 0
       /\ x.emisiones_totales_kg_co2e =
            calcularEmisionesCombustible(x.cantidad, x.factor_emision).total_kg_co2e
  /\ \A x \in RegistrosDe("scope1_fugitivas", "climatizacion_refrigeracion") :
       /\ x.emisiones_kg_co2e >= 0
       /\ x.emisiones_kg_co2e = calcularEmisionesFugitivas(x.recarga_kg, x.pca)
  /\ \A x \in RegistrosDe("scope2_electricidad", "electricidad_edificios") :
       /\ x.emisiones_kg_co2 >= 0
       /\ x.emisiones_kg_co2 =
            calcularEmisionesElectricidad(x.kwh_consumidos, x.factor_mix_kg_co2_kwh,
                                          x.garantia_origen)


\* ================================================== properties: validation
\* the calls of validate that have ended
Validadas == {p \in Procs : calls[p].op = "validate" /\ calls[p].pc = "done"}

\* the entries of a validation result with this field (all fields: "") and
\* this severity
Entradas(errors, field, severity) ==
  {i \in 1..Len(errors) :
     /\ field \in {"", errors[i].field}
     /\ errors[i].severity = severity}

\* C14: for every event validate returns normally, and isValid is true
\* exactly if its errors list holds no entry of severity error; an event
\* with warnings only is valid
C14_ValidIffNoError ==
  \A p \in Validadas :
    LET ret == calls[p].results IN
      /\ ~ret.threw
      /\ ret.isValid = (Entradas(ret.errors, "", "error") = {})

\* C15: the year rule.  A year under 2007 or over 2027 gives an error entry
\* on the year; a year in range that the reference data lists gives no entry
\* on the year; a year in range that it does not list gives exactly one
\* warning on the year and no error on it
C15_YearRule ==
  \A p \in Validadas :
    LET ret == calls[p].results
        anio == calls[p].args.anio
    IN /\ ~ret.threw
       /\ IF anio < ANIO_MIN \/ anio > ANIO_MAX
          THEN Entradas(ret.errors, "anio", "error") # {}
          ELSE IF anio \in EmissionFactorsData.anios_disponibles
          THEN Entradas(ret.errors, "anio", "error") = {}
                 /\ Entradas(ret.errors, "anio", "warning") = {}
          ELSE Entradas(ret.errors, "anio", "error") = {}
                 /\ Cardinality(Entradas(ret.errors, "anio", "warning")) = 1


\* ==================================================== properties: audit log
\* C16: the audit log is append-only.  Whatever a step of onDataChange,
\* onCalculate or onExport does to the log, the log after it is the log
\* before it with exactly one new entry at the end: no entry that was there
\* is changed, moved or removed
C16_AppendOnly ==
  [][audit_log' # audit_log =>
       /\ Len(audit_log') = Len(audit_log) + 1
       /\ SubSeq(audit_log', 1, Len(audit_log)) = audit_log]_vars


\* ======================================================= properties: engine
\* the calls of an exported function that have returned
Llamadas(fn) == {p \in Procs : calls[p].op = fn /\ calls[p].pc = "done"}

\* C17: for every quantity and factor triple, none negative,
\* calcularEmisionesCombustible returns as total_kg_co2e the value of
\* q x feCO2 + (q x feCH4 / 1000) x 27.9 + (q x feN2O / 1000) x 273 rounded half
\* up to three decimals (here: whole grams of a figure in 10^-5 g), the two
\* potentials being the same for every caller
C17_CombustionTotal ==
  \A p \in Llamadas("calcularEmisionesCombustible") :
    LET q == calls[p].args.cantidad
        fe == calls[p].args.fe
        exacto == q * fe.co2_kg_ud * 10000 + q * fe.ch4_g_ud * 279 + q * fe.n2o_g_ud * 2730
    IN calls[p].results.total_kg_co2e = (exacto + 50000) \div 100000

RECURSIVE KgFugitivos(_)
\* the sum of recarga_kg x pca over fugitive records
KgFugitivos(items) ==
  IF items = <<>> THEN 0 ELSE items[1].recarga_kg * items[1].pca + KgFugitivos(Tail(items))

C21_ZeroQuantity ==
  /\ \A p \in Llamadas("calcularEmisionesCombustible") :
       calls[p].args.cantidad = 0 => calls[p].results.total_kg_co2e = 0
  /\ \A p \in Llamadas("calcularEmisionesFugitivas") :
       calls[p].args.recarga_kg = 0 => calls[p].results = 0
  /\ \A p \in Llamadas("calcularEmisionesElectricidad") :
       calls[p].args.kwh_consumidos = 0 => calls[p].results = 0

\* the combustion function has returned 0 for no fuel at factors that are
\* all positive
C21_Witness ==
  \E p \in Llamadas("calcularEmisionesCombustible") :
    /\ calls[p].args = [cantidad |-> 0, fe |-> FactorEmision(2868, 40, 10)]
    /\ calls[p].results.total_kg_co2e = 0


\* ============================================ properties: pipeline stages
EsPrefijo(s, t) == Len(s) <= Len(t) /\ s = SubSeq(t, 1, Len(s))

\* the stages of onDataChange, in order
EtapasDataChange == <<"audit", "validate", "recalculate", "checkThresholds">>

C23_NoPriorYear ==
  \A p \in Procs :
    LET c == calls[p] IN
      (c.op = "onCalculate" /\ "checkThresholds" \in Range(c.stages)
         /\ Load(pgStore, c.orgId, c.anio - 1, "results") = NULL)
      => /\ c.pc = "done" /\ c.error = "none"
         /\ c.alerts = <<>>
         /\ c.results # NULL
         /\ c.results = Load(jsonStore, c.orgId, c.anio, "results")

\* a year with emissions has been calculated while the year before has no
\* results at all
C23_Witness ==
  \E p \in Procs :
    LET c == calls[p] IN
      /\ c.op = "onCalculate" /\ c.pc = "done" /\ c.anio = 2025
      /\ Load(pgStore, c.orgId, 2024, "results") = NULL
      /\ c.results # NULL /\ c.results.total_alcance_1_2_t_co2e > 0
      /\ c.alerts = <<>>


\* the event sets a quantity field to more than CANTIDAD_MAX in a year within
\* the range
CantidadInusual(event) ==
  /\ FieldIncludesCantidad(event.field)
  /\ event.newValue.t = "number" /\ event.newValue.n > CANTIDAD_MAX
  /\ event.anio >= ANIO_MIN /\ event.anio <= ANIO_MAX

\* C24: a quantity over 10,000,000 gets a warning and no error for its
\* field, so in a year within the range the event is valid: once validation
\* has run, onDataChange goes on to the recalculation and carries the
\* warning in its alerts
C24_HighQuantityWarns ==
  \A p \in Procs :
    LET c == calls[p] IN
      (c.op = "onDataChange" /\ CantidadInusual(c.event)
         /\ "validate" \in Range(c.stages))
      => /\ c.pc \in {"recalculate", "checkThresholds", "done"}
         /\ c.validation # NULL /\ c.validation.isValid
         /\ Entradas(c.validation.errors, c.event.field, "warning") # {}
         /\ Entradas(c.validation.errors, c.event.field, "error") = {}
         /\ \E i \in 1..Len(c.alerts) :
              c.alerts[i].tipo = "warning" /\ c.alerts[i].field = c.event.field


\* ==================================================== properties: queries
\* the rows of the log file as getRecent reads them
FilasLeidas == readCSV(audit_log)

\* C25: getRecent(orgId, N) returns at most N entries, all of them entries
\* of the log that belong to orgId, none twice, newest first; no entry of
\* the organization that it leaves out is newer than one it returns, and it
\* leaves entries out only when there are more than N
C25_RecentNewestFirst ==
  \A p \in Llamadas("getRecent") :
    LET r == calls[p].results
        orgId == calls[p].args.orgId
        N == calls[p].args.limit
        suyas == {i \in 1..Len(FilasLeidas) : FilasLeidas[i].org_id = JsStr(orgId)}
        devueltas == {i \in suyas : \E j \in 1..Len(r) : r[j] = FilasLeidas[i]}
    IN /\ Len(r) <= N
       /\ \A j \in 1..Len(r) : \E i \in suyas : r[j] = FilasLeidas[i]
       /\ Cardinality(devueltas) = Len(r)
       /\ \A j, k \in 1..Len(r) : j < k => r[j].timestamp.n >= r[k].timestamp.n
       /\ \A i \in suyas \ devueltas, j \in 1..Len(r) :
            FilasLeidas[i].timestamp.n <= r[j].timestamp.n
       /\ Len(r) = IF N < Cardinality(suyas) THEN N ELSE Cardinality(suyas)

\* of three entries of org_001 written with instants 1, 3, 2, mixed with
\* none of the other organization, getRecent(org_001, 2) has returned those
\* of instants 3 and 2
C25_Witness ==
  \E p \in Llamadas("getRecent") :
    /\ calls[p].args = [orgId |-> "org_001", limit |-> 2]
    /\ Len(FilasLeidas) = 3
    /\ \A i \in 1..3 : FilasLeidas[i].org_id = JsStr("org_001")
    /\ <<FilasLeidas[1].timestamp.n, FilasLeidas[2].timestamp.n, FilasLeidas[3].timestamp.n>>
         = <<1, 3, 2>>
    /\ Len(calls[p].results) = 2
    /\ calls[p].results[1] = FilasLeidas[2] /\ calls[p].results[2] = FilasLeidas[3]


\* ============================================= properties: failing storage
\* a file recalculate({orgId, anio}) loads cannot be read
CargaFalla(orgId, anio) ==
  \E t \in Tipos \ {"results"} : Load(jsonStore, orgId, anio, t) = Ilegible

\* C26: when the audit append or a load or save fails during onDataChange
\* or onCalculate, the call fails with that error, which is neither a
\* ValidationError nor replaced by empty or zero data; no later stage runs
\* and nothing is saved; and a failed call takes no further step (the slot
\* changes again only when a caller makes a new request)
C26_ErrorsPropagate ==
  [][\A p \in Procs :
       /\ (/\ calls[p].op \in {"onDataChange", "onCalculate"}
           /\ calls[p].pc = "recalculate" /\ calls'[p] # calls[p]
           /\ CargaFalla(calls[p].orgId, calls[p].anio))
          => /\ calls'[p].pc = "failed"
             /\ calls'[p].error \notin {"none", "ValidationError"}
             /\ calls'[p].results = NULL
             /\ calls'[p].stages = calls[p].stages
             /\ jsonStore' = jsonStore
       /\ (calls[p].pc # "failed" /\ calls'[p].pc = "failed"
             /\ calls'[p].error \in {"EIO", "DatabaseError"})
          => /\ calls'[p].stages = calls[p].stages
             /\ <<audit_log, jsonStore, pgStore>>' = <<audit_log, jsonStore, pgStore>>
       /\ (calls[p].pc = "failed" /\ calls'[p] # calls[p])
          => (now' = now + 1 /\ calls'[p].pc = "log_read" /\ calls'[p].stages = <<>>)]_vars


\* ================================================ properties: concurrency
\* the calls that are inside auditAgent.log
EnLog == {p \in Procs : calls[p].pc \in {"log_read", "log_write"}}

\* C27: every AuditAgent.log call made so far (call n writes the row
\* aud_n) is still in flight or has its row in audit_log: no row is lost to
\* another call's overwrite
C27_NoLostEntry ==
  \A n \in 1..now :
    \/ \E p \in EnLog : calls[p].uuid = n
    \/ \E i \in 1..Len(audit_log) : audit_log[i].id = TxtCell("aud_" \o ToString(n))

\* C28: once a pg-store write has returned the guard cache holds no
\* measurement taken before the write was applied.  Rows enter
\* org_year_data through pg-store writes alone, so with no write in
\* progress a cached measurement counts the rows the table holds
C28_NoStaleMeasurement ==
  (\A p \in Procs : reqs[p].writer = "none")
  => (cache = NULL \/ cache.rows = RowCount)

\* C29: a getDatabaseSize whose size or count query fails leaves the cache
\* as it was and reports bytes = 0 and rows = 0, so that checkWriteAllowed
\* allows the write with no warning and getUsageInfo reports neither limit
\* reached; the cache is then not fresh, and a getDatabaseSize that finds
\* it so queries the database again
C29_FailsOpen ==
  [][\A p \in Procs :
       /\ (reqs[p].pc \in {"gs_size", "gs_rows"} /\ Avanza(p) /\ ~usage.dbOk)
          => /\ cache' = cache
             /\ ~CacheFresh(cache', now')
             /\ reqs'[p].guard # NULL
             /\ reqs'[p].guard.rowCount = 0
             /\ reqs[p].route \in {"POST", "DELETE"}
                  => /\ reqs'[p].guard.dbSizeBytes = 0
                     /\ reqs'[p].guard.allowed
                     /\ ~reqs'[p].guard.warning
                     /\ reqs'[p].error = "none"
                     /\ reqs'[p].pc = reqs[p].ret
             /\ reqs[p].route = "usage"
                  => (~reqs'[p].guard.isBlocked /\ ~reqs'[p].guard.isNearLimit)
       /\ (reqs[p].pc = "gs_start" /\ Avanza(p) /\ ~CacheFresh(cache, now))
          => reqs'[p].pc = "gs_size"]_vars

\* C29 witness: the write of a POST was let through on a failed measurement
\* while the database is at the hard limit
C29_Witness ==
  \E p \in Procs :
    /\ reqs[p].route = "POST"
    /\ reqs[p].pc \in {"init_insert", "upsert", "sedes_delete"}
    /\ reqs[p].guard # NULL
    /\ ~reqs[p].hit
    /\ reqs[p].guard.allowed
    /\ reqs[p].guard.dbSizeBytes = 0
    /\ usage.bytes = HARD_LIMIT_BYTES
    /\ ~usage.dbOk

\* the fugitive records org_year_data holds for the request of slot p
FugitivasDe(r) ==
  Listed(pgStore[r.orgId][r.anio], "scope1_fugitivas", "climatizacion_refrigeracion")

====
